---- MODULE Spec2Model ----
(***************************************************************************)
(* A model of gymnarium_base's space module (src/src/space.rs): the flat   *)
(* addressing function calculate_index, the Space and Position containers  *)
(* and the Format registry of named sub-regions.                           *)
(*                                                                         *)
(* Rust vectors are 0-based; they are modelled by TLA+ sequences, so the   *)
(* Rust cell x[i] is the TLA+ element x[i + 1].  A Rust panic is modelled  *)
(* as the outcome "Panic": it is an outcome of the call, distinct from     *)
(* both Ok and Err, after which the program makes no further call.         *)
(***************************************************************************)
EXTENDS Integers, Sequences, FiniteSets, TLC

VARIABLES v, length, space, position, call, result

vars == <<v, length, space, position, call, result>>

(* ------------------------------ bounds -------------------------------- *)

\* Largest extent of one dimension of a shape, and largest index component.
MaxExtent == 2
\* Largest number of dimensions of a shape.
MaxRank == 2
\* Largest total flat length a Format grows to, and largest flat length of a
\* directly constructed Space or Position.
MaxLength == 2

Min(a, b) == IF a <= b THEN a ELSE b

\* Sequences over S of length 0..n.
SeqUpTo(S, n) == UNION {[1..k -> S] : k \in 0..n}

\* The shapes (dimensions sequences) the model draws from.
Shapes == SeqUpTo(0..MaxExtent, MaxRank)

\* The multi-indices the model draws from: up to two components more than
\* the longest shape, each component up to MaxExtent.
Indices == SeqUpTo(0..MaxExtent, MaxRank + 2)

\* The keys a Format is addressed with.
Keys == {"a", "b"}

(* ------------------------- values and results ------------------------- *)

\* DimensionBoundaries::INTEGER(min, max) and ::FLOAT(min, max).  Floats are
\* restricted to integral values.
INTEGER(min, max) == [tag |-> "INTEGER", min |-> min, max |-> max]
FLOAT(min, max) == [tag |-> "FLOAT", min |-> min, max |-> max]

\* DimensionValue::INTEGER(val) and ::FLOAT(val).
IntegerValue(val) == [tag |-> "INTEGER", val |-> val]
FloatValue(val) == [tag |-> "FLOAT", val |-> val]

\* The boundaries and the values the model draws from.
Boundaries == {INTEGER(0, 0), FLOAT(1, 1)}
Values == {IntegerValue(0), FloatValue(1)}

\* SpaceError and FormatError values.  Every error is a record with the same
\* fields; a field an error does not carry is "" or 0.
NoError == [name |-> "", inner |-> "", key |-> "", needed |-> 0, given |-> 0]
GivenDimensionsDoNotMatch == [NoError EXCEPT !.name = "GivenDimensionsDoNotMatch"]
IndexOutOfBounds == [NoError EXCEPT !.name = "IndexOutOfBounds"]
KeyAlreadyExistsInFormat(key) ==
    [NoError EXCEPT !.name = "KeyAlreadyExistsInFormat", !.key = key]
\* The mutant of KeyNotFoundInFormat: the variant of a key registered twice.
KeyNotFoundInFormatAsExists(key) ==
    [NoError EXCEPT !.name = "KeyAlreadyExistsInFormat", !.key = key]
KeyNotFoundInFormat(key) ==
    [NoError EXCEPT !.name = "KeyNotFoundInFormat", !.key = key]
SpaceCreationError(e) == [NoError EXCEPT !.name = "SpaceCreationError", !.inner = e.name]
PositionCreationError(e) ==
    [NoError EXCEPT !.name = "PositionCreationError", !.inner = e.name]
\* The mutant of GivenSpaceDoesNotFit: the two counts change places.
GivenSpaceDoesNotFitSwapped(needed, given) ==
    [NoError EXCEPT !.name = "GivenSpaceDoesNotFit", !.needed = given, !.given = needed]
GivenSpaceDoesNotFit(needed, given) ==
    [NoError EXCEPT !.name = "GivenSpaceDoesNotFit", !.needed = needed, !.given = given]
SpaceIndexError(e) == [NoError EXCEPT !.name = "SpaceIndexError", !.inner = e.name]
PositionIndexError(e) == [NoError EXCEPT !.name = "PositionIndexError", !.inner = e.name]

\* The outcome of a call: Ok(val), Err(err) or a panic.  val is a sequence
\* holding the returned value (empty for the unit value).
Ok(val) == [kind |-> "Ok", val |-> val, err |-> NoError]
Err(e) == [kind |-> "Err", val |-> <<>>, err |-> e]
Panic == [kind |-> "Panic", val |-> <<>>, err |-> NoError]

(* --------------------------- calculate_index -------------------------- *)

\* dimensions.iter().product(): the product of the extents, 1 for no extent.
RECURSIVE product(_)
product(shape) ==
    IF shape = <<>> THEN 1 ELSE Head(shape) * product(Tail(shape))

\* index.iter().zip(shape.iter()).any(|(a, b)| a >= b): zip stops at the
\* shorter of the two sequences.
AnyOutOfBounds(shape, index) ==
    \E i \in 1..Min(Len(index), Len(shape)) : index[i] >= shape[i]

\* The loop `for i in 1..index.len() { output_index += index[i] * shape[i - 1] }`
\* from Rust position i on (0-based), with the running value out.  Reading
\* shape[i - 1] beyond the end of shape panics.
RECURSIVE StrideLoop(_, _, _, _)
StrideLoop(shape, index, i, out) ==
    IF i >= Len(index) THEN Ok(<<out>>)
    ELSE IF i - 1 >= Len(shape) THEN Panic
    ELSE StrideLoop(shape, index, i + 1, out + index[i + 1] * shape[i])

\* The mutant of calculate_index: conventional strides, each component
\* scaled by the extent of its own dimension instead of the preceding one.
RECURSIVE StrideLoopOwnExtent(_, _, _, _)
StrideLoopOwnExtent(shape, index, i, out) ==
    IF i >= Len(index) THEN Ok(<<out>>)
    ELSE IF i - 1 >= Len(shape) THEN Panic
    ELSE StrideLoopOwnExtent(shape, index, i + 1,
            out + index[i + 1] * (IF i < Len(shape) THEN shape[i + 1] ELSE 1))

calculate_index_own_extent(shape, index) ==
    IF AnyOutOfBounds(shape, index) THEN Err(IndexOutOfBounds)
    ELSE IF index = <<>> THEN Ok(<<0>>)
    ELSE StrideLoopOwnExtent(shape, index, 1, index[1])

\* fn calculate_index(shape, index) -> Result<usize, SpaceError>
calculate_index(shape, index) ==
    IF AnyOutOfBounds(shape, index) THEN Err(IndexOutOfBounds)
    ELSE IF index = <<>> THEN Ok(<<0>>)
    ELSE StrideLoop(shape, index, 1, index[1])

(* -------------------------- Space and Position ------------------------ *)

\* struct Space { boundaries, dimensions } and struct Position { values,
\* dimensions }: one flat sequence of cells and the shape.
Space(boundaries, dimensions) == [boundaries |-> boundaries, dimensions |-> dimensions]
Position(values, dimensions) == [values |-> values, dimensions |-> dimensions]

\* vec![cell; n]
Repeat(cell, n) == [i \in 1..n |-> cell]

\* The mutant of Space::new and Position::new: the length check compares
\* against the number of dimensions instead of their product.
SpaceNewRankCheck(dimension_boundaries, dimensions) ==
    IF Len(dimensions) = Len(dimension_boundaries)
    THEN Ok(<<Space(dimension_boundaries, dimensions)>>)
    ELSE Err(GivenDimensionsDoNotMatch)

\* Space::new(dimension_boundaries, dimensions) -> Result<Space, SpaceError>
SpaceNew(dimension_boundaries, dimensions) ==
    IF product(dimensions) = Len(dimension_boundaries)
    THEN Ok(<<Space(dimension_boundaries, dimensions)>>)
    ELSE Err(GivenDimensionsDoNotMatch)

\* The mutant of Space::all: one cell per dimension instead of the product of
\* the extents.
SpaceAllPerDimension(dimension_boundaries, dimensions) ==
    Space(Repeat(dimension_boundaries, Len(dimensions)), dimensions)

\* Space::all(dimension_boundaries, dimensions)
SpaceAll(dimension_boundaries, dimensions) ==
    Space(Repeat(dimension_boundaries, product(dimensions)), dimensions)

\* Space::simple(dimension_boundaries)
SpaceSimple(dimension_boundaries) ==
    Space(dimension_boundaries, <<Len(dimension_boundaries)>>)

\* Space::simple_all(dimension_boundaries, times)
SpaceSimpleAll(dimension_boundaries, times) ==
    Space(Repeat(dimension_boundaries, times), <<times>>)

\* Position::new(dimension_values, dimensions) -> Result<Position, SpaceError>
PositionNew(dimension_values, dimensions) ==
    IF product(dimensions) = Len(dimension_values)
    THEN Ok(<<Position(dimension_values, dimensions)>>)
    ELSE Err(GivenDimensionsDoNotMatch)

\* The mutant of Position::all: one cell per dimension instead of the product
\* of the extents.
PositionAllPerDimension(dimension_value, dimensions) ==
    Position(Repeat(dimension_value, Len(dimensions)), dimensions)

\* Position::all(dimension_value, dimensions)
PositionAll(dimension_value, dimensions) ==
    Position(Repeat(dimension_value, product(dimensions)), dimensions)

\* Position::simple(dimension_values)
PositionSimple(dimension_values) ==
    Position(dimension_values, <<Len(dimension_values)>>)

\* Position::simple_all(dimension_value, times)
PositionSimpleAll(dimension_value, times) ==
    Position(Repeat(dimension_value, times), <<times>>)

\* A read of the Rust cell cells[i]: a panic when i is past the end.
InBounds(cells, i) == i < Len(cells)

\* The Index and IndexMut operators of Space and Position on a flat sequence
\* of cells with the shape dimensions: calculate_index, a panic on its error
\* (unwrap_or_else(panic!)), then the access to the flat cell.
IndexOp(cells, dimensions, index) ==
    LET r == calculate_index(dimensions, index)
    IN  IF r.kind # "Ok" THEN Panic
        ELSE IF ~InBounds(cells, r.val[1]) THEN Panic
        ELSE Ok(<<cells[r.val[1] + 1]>>)

IndexMutOp(cells, dimensions, index, cell) ==
    LET r == calculate_index(dimensions, index)
    IN  IF r.kind # "Ok" THEN [res |-> Panic, cells |-> cells]
        ELSE IF ~InBounds(cells, r.val[1]) THEN [res |-> Panic, cells |-> cells]
        ELSE [res |-> Ok(<<>>), cells |-> [cells EXCEPT ![r.val[1] + 1] = cell]]

\* Space::get_boundary(index) and Space::set_boundary(index, boundary)
get_boundary(s, index) == IndexOp(s.boundaries, s.dimensions, index)

set_boundary(s, index, boundary) ==
    LET w == IndexMutOp(s.boundaries, s.dimensions, index, boundary)
    IN  [res |-> w.res, space |-> Space(w.cells, s.dimensions)]

\* Position::get_value(index) and Position::set_value(index, value)
position_get_value(p, index) == IndexOp(p.values, p.dimensions, index)

position_set_value(p, index, value) ==
    LET w == IndexMutOp(p.values, p.dimensions, index, value)
    IN  [res |-> w.res, position |-> Position(w.cells, p.dimensions)]

(* -------------------------------- sampling ---------------------------- *)

\* The random source handed to sample_with is a generator of the rand crate:
\* its state is a number, a draw reads the state and steps it.
RngPeriod == 2

RngNext(rng) == (rng + 1) % RngPeriod

\* Uniform::new_inclusive(min, max).sample(rng): a value of min..max chosen
\* by the state of the random source; new_inclusive panics when min > max.
UniformSample(min, max, rng) ==
    IF min > max THEN Panic ELSE Ok(<<min + (rng % (max - min + 1))>>)

\* DimensionBoundaries::sample_with(rng): a value of the boundary's variant.
boundaries_sample_with(b, rng) ==
    LET u == UniformSample(b.min, b.max, rng)
    IN  IF u.kind # "Ok" THEN Panic
        ELSE Ok(<<[tag |-> b.tag, val |-> u.val[1]]>>)

\* The mutant of the cell loop of sample_with: the cells are drawn from the
\* last flat cell to the first.
RECURSIVE SampleCellsBackwards(_, _, _, _)
SampleCellsBackwards(cells, i, rng, acc) ==
    IF i >= Len(cells) THEN [res |-> Ok(acc), rng |-> rng]
    ELSE LET d == boundaries_sample_with(cells[Len(cells) - i], rng)
         IN  IF d.kind # "Ok" THEN [res |-> Panic, rng |-> rng]
             ELSE SampleCellsBackwards(cells, i + 1, RngNext(rng), <<d.val[1]>> \o acc)

\* self.boundaries.iter().map(|b| b.sample_with(rng)).collect(): the cells
\* from Rust position i on, in flat order, each draw stepping the source.
RECURSIVE SampleCells(_, _, _, _)
SampleCells(cells, i, rng, acc) ==
    IF i >= Len(cells) THEN [res |-> Ok(acc), rng |-> rng]
    ELSE LET d == boundaries_sample_with(cells[i + 1], rng)
         IN  IF d.kind # "Ok" THEN [res |-> Panic, rng |-> rng]
             ELSE SampleCells(cells, i + 1, RngNext(rng), Append(acc, d.val[1]))

\* Space::sample_with(rng) -> Position
sample_with(s, rng) ==
    LET c == SampleCells(s.boundaries, 0, rng, <<>>)
    IN  IF c.res.kind # "Ok" THEN [res |-> Panic, rng |-> c.rng]
        ELSE [res |-> Ok(<<Position(c.res.val, s.dimensions)>>), rng |-> c.rng]

\* The mutant of a run of sample_with: the values are drawn from the
\* thread-local source of Space::sample (rand::thread_rng()), whose state the
\* caller does not know, and the source handed in is left alone.
sample_outcomes(s, rng) ==
    {[res |-> sample_with(s, t).res, rng |-> rng] : t \in 0..(RngPeriod - 1)}

\* The outcomes one run of Space::sample_with can have: the code reads the
\* Space and the source it is handed and nothing else, so there is one.
sample_with_outcomes(s, rng) == {sample_with(s, rng)}

(* ------------------------- matches and contains ----------------------- *)

\* Largest min, max of a boundary the calls on single boundaries and values
\* draw from; their values go one further.
MaxValue == 2

\* Every boundary with min and max of 0..MaxValue (min > max included), and
\* every value of 0..MaxValue + 1.
BoundarySet ==
    {INTEGER(min, max) : min \in 0..MaxValue, max \in 0..MaxValue}
        \cup {FLOAT(min, max) : min \in 0..MaxValue, max \in 0..MaxValue}

ValueSet ==
    {IntegerValue(val) : val \in 0..(MaxValue + 1)}
        \cup {FloatValue(val) : val \in 0..(MaxValue + 1)}

\* The mutant of DimensionBoundaries::matches: it compares the boundaries
\* themselves, min and max included.
boundaries_matches_equal(self, value) == self = value

\* DimensionBoundaries::matches(value): the nested match on the two variants.
boundaries_matches(self, value) ==
    IF self.tag = "INTEGER"
    THEN (IF value.tag = "INTEGER" THEN TRUE ELSE FALSE)
    ELSE (IF value.tag = "INTEGER" THEN FALSE ELSE TRUE)

\* DimensionValue::matches(value)
value_matches(self, value) ==
    IF self.tag = "INTEGER"
    THEN (IF value.tag = "INTEGER" THEN TRUE ELSE FALSE)
    ELSE (IF value.tag = "INTEGER" THEN FALSE ELSE TRUE)

\* The mutant of DimensionBoundaries::contains: max is not part of the range.
boundaries_contains_exclusive(self, value) ==
    IF self.tag = "INTEGER"
    THEN (IF value.tag = "INTEGER"
          THEN self.min <= value.val /\ value.val < self.max ELSE FALSE)
    ELSE (IF value.tag = "INTEGER"
          THEN FALSE ELSE self.min <= value.val /\ value.val < self.max)

\* DimensionBoundaries::contains(value)
boundaries_contains(self, value) ==
    IF self.tag = "INTEGER"
    THEN (IF value.tag = "INTEGER"
          THEN self.min <= value.val /\ value.val <= self.max ELSE FALSE)
    ELSE (IF value.tag = "INTEGER"
          THEN FALSE ELSE self.min <= value.val /\ value.val <= self.max)

\* Space::matches(other): zip stops at the shorter of the two cell sequences,
\* any is true when some pair satisfies the closure.
space_matches(self, other) ==
    /\ self.dimensions = other.dimensions
    /\ \E i \in 1..Min(Len(self.boundaries), Len(other.boundaries)) :
          ~boundaries_matches(self.boundaries[i], other.boundaries[i])

\* Position::matches(other)
position_matches(self, other) ==
    /\ self.dimensions = other.dimensions
    /\ \E i \in 1..Min(Len(self.values), Len(other.values)) :
          ~value_matches(self.values[i], other.values[i])

\* Space::contains(other)
space_contains(self, other) ==
    /\ self.dimensions = other.dimensions
    /\ \E i \in 1..Min(Len(self.boundaries), Len(other.values)) :
          boundaries_contains(self.boundaries[i], other.values[i])

(* -------------------------------- Format ------------------------------ *)

\* struct Format { v, length }
Format(fv, flength) == [v |-> fv, length |-> flength]

\* The mutant of SubFormat::new: the length is the sum of the extents.
RECURSIVE sum(_)
sum(shape) == IF shape = <<>> THEN 0 ELSE Head(shape) + sum(Tail(shape))

SubFormatNewSum(offset, shape) ==
    [offset |-> offset, shape |-> shape, length |-> sum(shape)]

\* SubFormat::new(offset, shape)
SubFormatNew(offset, shape) ==
    [offset |-> offset, shape |-> shape, length |-> product(shape)]

\* The mutant of Format::add: an existing key is registered again.
FormatAddOverwrite(f, key, shape) ==
    LET sub_format == SubFormatNew(f.length, shape)
    IN  [res |-> Ok(<<>>),
         format |-> Format([k \in DOMAIN f.v \cup {key} |->
                               IF k = key THEN sub_format ELSE f.v[k]],
                           f.length + sub_format.length)]

\* Format::add(key, shape) -> Result<(), FormatError>
FormatAdd(f, key, shape) ==
    IF key \in DOMAIN f.v
    THEN [res |-> Err(KeyAlreadyExistsInFormat(key)), format |-> f]
    ELSE LET sub_format == SubFormatNew(f.length, shape)
         IN  [res |-> Ok(<<>>),
              format |-> Format([k \in DOMAIN f.v \cup {key} |->
                                    IF k = key THEN sub_format ELSE f.v[k]],
                                f.length + sub_format.length)]

\* The mutant of Format::new_space: one cell per key instead of the flat
\* length.
new_space_per_key(f) == SpaceSimpleAll(INTEGER(0, 0), Cardinality(DOMAIN f.v))

\* Format::new_space()
new_space(f) == SpaceSimpleAll(INTEGER(0, 0), f.length)

\* The mutant of the read loop: it reads from the beginning of the flat cells,
\* not from the offset of the key.
RECURSIVE ReadRangeFromStart(_, _, _, _)
ReadRangeFromStart(cells, index, end, acc) ==
    IF index >= end THEN Ok(acc)
    ELSE IF ~InBounds(cells, Len(acc)) THEN Panic
    ELSE ReadRangeFromStart(cells, index + 1, end, Append(acc, cells[Len(acc) + 1]))

\* `for index in offset..(offset + length) { values.push(cells[index]) }`
\* from Rust position index on: the cells read so far are acc.
RECURSIVE ReadRange(_, _, _, _)
ReadRange(cells, index, end, acc) ==
    IF index >= end THEN Ok(acc)
    ELSE IF ~InBounds(cells, index) THEN Panic
    ELSE ReadRange(cells, index + 1, end, Append(acc, cells[index + 1]))

\* The mutant of the write loop: it writes from the beginning of the flat
\* cells, not from the offset of the key.
RECURSIVE WriteRangeNoOffset(_, _, _, _, _)
WriteRangeNoOffset(cells, offset, src, index, len) ==
    IF index >= len THEN [res |-> Ok(<<>>), cells |-> cells]
    ELSE IF ~InBounds(cells, index) THEN [res |-> Panic, cells |-> cells]
    ELSE WriteRangeNoOffset([cells EXCEPT ![index + 1] = src[index + 1]],
                            offset, src, index + 1, len)

\* `for index in 0..length { cells[offset + index] = src[index] }` from Rust
\* position index on.  A write past the end of cells panics, and the writes
\* made before it stay.
RECURSIVE WriteRange(_, _, _, _, _)
WriteRange(cells, offset, src, index, len) ==
    IF index >= len THEN [res |-> Ok(<<>>), cells |-> cells]
    ELSE IF ~InBounds(cells, offset + index) THEN [res |-> Panic, cells |-> cells]
    ELSE WriteRange([cells EXCEPT ![offset + index + 1] = src[index + 1]],
                    offset, src, index + 1, len)

\* Format::get_subspace(space, key) -> Result<Space, FormatError>
get_subspace(f, s, key) ==
    IF key \notin DOMAIN f.v THEN Err(KeyNotFoundInFormat(key))
    ELSE LET sf == f.v[key]
             r == ReadRange(s.boundaries, sf.offset, sf.offset + sf.length, <<>>)
         IN  IF r.kind # "Ok" THEN Panic
             ELSE LET n == SpaceNew(r.val, sf.shape)
                  IN  IF n.kind = "Ok" THEN n ELSE Err(SpaceCreationError(n.err))

\* Format::set_subspace(space, key, subspace) -> Result<(), FormatError>
set_subspace(f, s, key, subspace) ==
    IF key \notin DOMAIN f.v
    THEN [res |-> Err(KeyNotFoundInFormat(key)), space |-> s]
    ELSE LET sf == f.v[key]
         IN  IF Len(subspace.boundaries) = sf.length
             THEN LET w == WriteRange(s.boundaries, sf.offset, subspace.boundaries,
                                      0, sf.length)
                  IN  [res |-> w.res, space |-> Space(w.cells, s.dimensions)]
             ELSE [res |-> Err(GivenSpaceDoesNotFit(sf.length,
                                                    Len(subspace.boundaries))),
                   space |-> s]

\* Format::get_boundaries(space, key, index)
get_boundaries(f, s, key, index) ==
    IF key \notin DOMAIN f.v THEN Err(KeyNotFoundInFormat(key))
    ELSE LET sf == f.v[key]
             r == calculate_index(sf.shape, index)
         IN  IF r.kind = "Err" THEN Err(SpaceIndexError(r.err))
             ELSE IF r.kind = "Panic" THEN Panic
             ELSE IF ~InBounds(s.boundaries, sf.offset + r.val[1]) THEN Panic
             ELSE Ok(<<s.boundaries[sf.offset + r.val[1] + 1]>>)

\* Format::set_boundaries(space, key, index, boundaries)
set_boundaries(f, s, key, index, boundaries) ==
    IF key \notin DOMAIN f.v
    THEN [res |-> Err(KeyNotFoundInFormat(key)), space |-> s]
    ELSE LET sf == f.v[key]
             r == calculate_index(sf.shape, index)
         IN  IF r.kind = "Err"
             THEN [res |-> Err(SpaceIndexError(r.err)), space |-> s]
             ELSE IF r.kind = "Panic" THEN [res |-> Panic, space |-> s]
             ELSE IF ~InBounds(s.boundaries, sf.offset + r.val[1])
             THEN [res |-> Panic, space |-> s]
             ELSE [res |-> Ok(<<>>),
                   space |-> Space([s.boundaries EXCEPT
                                       ![sf.offset + r.val[1] + 1] = boundaries],
                                   s.dimensions)]

\* Format::get_subposition(position, key) -> Result<Position, FormatError>
get_subposition(f, p, key) ==
    IF key \notin DOMAIN f.v THEN Err(KeyNotFoundInFormat(key))
    ELSE LET sf == f.v[key]
             r == ReadRange(p.values, sf.offset, sf.offset + sf.length, <<>>)
         IN  IF r.kind # "Ok" THEN Panic
             ELSE LET n == PositionNew(r.val, sf.shape)
                  IN  IF n.kind = "Ok" THEN n ELSE Err(PositionCreationError(n.err))

\* Format::set_subposition(position, key, subposition)
set_subposition(f, p, key, subposition) ==
    IF key \notin DOMAIN f.v
    THEN [res |-> Err(KeyNotFoundInFormat(key)), position |-> p]
    ELSE LET sf == f.v[key]
         IN  IF Len(subposition.values) = sf.length
             THEN LET w == WriteRange(p.values, sf.offset, subposition.values,
                                      0, sf.length)
                  IN  [res |-> w.res, position |-> Position(w.cells, p.dimensions)]
             ELSE [res |-> Err(GivenSpaceDoesNotFit(sf.length,
                                                    Len(subposition.values))),
                   position |-> p]

\* Format::get_value(position, key, index)
get_value(f, p, key, index) ==
    IF key \notin DOMAIN f.v THEN Err(KeyNotFoundInFormat(key))
    ELSE LET sf == f.v[key]
             r == calculate_index(sf.shape, index)
         IN  IF r.kind = "Err" THEN Err(PositionIndexError(r.err))
             ELSE IF r.kind = "Panic" THEN Panic
             ELSE IF ~InBounds(p.values, sf.offset + r.val[1]) THEN Panic
             ELSE Ok(<<p.values[sf.offset + r.val[1] + 1]>>)

\* Format::set_value(position, key, index, value)
set_value(f, p, key, index, value) ==
    IF key \notin DOMAIN f.v
    THEN [res |-> Err(KeyNotFoundInFormat(key)), position |-> p]
    ELSE LET sf == f.v[key]
             r == calculate_index(sf.shape, index)
         IN  IF r.kind = "Err"
             THEN [res |-> Err(PositionIndexError(r.err)), position |-> p]
             ELSE IF r.kind = "Panic" THEN [res |-> Panic, position |-> p]
             ELSE IF ~InBounds(p.values, sf.offset + r.val[1])
             THEN [res |-> Panic, position |-> p]
             ELSE [res |-> Ok(<<>>),
                   position |-> Position([p.values EXCEPT
                                             ![sf.offset + r.val[1] + 1] = value],
                                         p.dimensions)]

(* ------------------------------ the state ----------------------------- *)

\* v and length are the fields of the one Format of the program, space and
\* position the Space and the Position it addresses; call is the call made
\* last and result its outcome.

\* A call: the operation and its arguments (those it does not take are
\* empty).  arg holds a Space, Position, boundary or value argument.
NoCall == [op |-> "", key |-> "", shape |-> <<>>, index |-> <<>>, arg |-> <<>>]

Call(op, key, shape, index, arg) ==
    [op |-> op, key |-> key, shape |-> shape, index |-> index, arg |-> arg]

\* The outcome of a call that has not returned yet.
Pending == [kind |-> "Pending", val |-> <<>>, err |-> NoError]

\* Format::default(): no entry and length 0.
FormatDefault == Format([k \in {} |-> SubFormatNew(0, <<>>)], 0)

\* The program runs on until a call panics.
Running == result.kind # "Panic"

\* The shapes registered with the program's Format: those without an extent
\* of 0, and the one-dimensional shape of extent 0.
AddShapes == {s \in Shapes : s = <<0>> \/ \A k \in 1..Len(s) : s[k] > 0}

\* The arguments the calls draw from.
SubSpaces ==
    {SpaceAll(b, d) : b \in Boundaries, d \in {s \in AddShapes : product(s) <= MaxLength}}
        \cup {SpaceSimple(c) : c \in SeqUpTo(Boundaries, MaxLength)}

SubPositions ==
    {PositionAll(x, d) : x \in Values, d \in {s \in AddShapes : product(s) <= MaxLength}}
        \cup {PositionSimple(c) : c \in SeqUpTo(Values, MaxLength)}

\* The multi-indices of the calls on the program's Format, Space and Position.
CellIndices ==
    {i \in Indices : Len(i) <= MaxRank /\ \A k \in 1..Len(i) : i[k] <= 1}

(* ------------------- the program around one Format -------------------- *)

\* The program starts with the empty Format, the Space made for it and the
\* Position sampled from that Space.
Init ==
    /\ v = FormatDefault.v
    /\ length = FormatDefault.length
    /\ space = new_space(FormatDefault)
    /\ position = sample_with(new_space(FormatDefault), 0).res.val[1]
    /\ call = NoCall
    /\ result = Ok(<<>>)

add(key, shape) ==
    /\ Running
    /\ length + product(shape) <= MaxLength
    /\ LET r == FormatAdd(Format(v, length), key, shape)
       IN  /\ v' = r.format.v
           /\ length' = r.format.length
           /\ result' = r.res
    /\ call' = Call("add", key, <<>>, <<>>, <<>>)
    /\ UNCHANGED <<space, position>>

NewSpace ==
    /\ Running
    /\ space' = new_space(Format(v, length))
    /\ call' = Call("new_space", "", <<>>, <<>>, <<>>)
    /\ result' = Ok(<<space'>>)
    /\ UNCHANGED <<v, length, position>>

SampleWith(rng) ==
    /\ Running
    /\ LET r == sample_with(space, rng)
       IN  /\ result' = r.res
           /\ position' = IF r.res.kind = "Ok" THEN r.res.val[1] ELSE position
    /\ call' = Call("sample_with", "", <<>>, <<>>, <<>>)
    /\ UNCHANGED <<v, length, space>>

GetSubspace(key) ==
    /\ Running
    /\ result' = get_subspace(Format(v, length), space, key)
    /\ call' = Call("get_subspace", key, <<>>, <<>>, <<>>)
    /\ UNCHANGED <<v, length, space, position>>

SetSubspace(key, subspace) ==
    /\ Running
    /\ LET r == set_subspace(Format(v, length), space, key, subspace)
       IN  /\ space' = r.space
           /\ result' = r.res
    /\ call' = Call("set_subspace", key, <<>>, <<>>, <<>>)
    /\ UNCHANGED <<v, length, position>>

GetBoundaries(key, index) ==
    /\ Running
    /\ result' = get_boundaries(Format(v, length), space, key, index)
    /\ call' = Call("get_boundaries", key, <<>>, <<>>, <<>>)
    /\ UNCHANGED <<v, length, space, position>>

SetBoundaries(key, index, boundaries) ==
    /\ Running
    /\ LET r == set_boundaries(Format(v, length), space, key, index, boundaries)
       IN  /\ space' = r.space
           /\ result' = r.res
    /\ call' = Call("set_boundaries", key, <<>>, <<>>, <<>>)
    /\ UNCHANGED <<v, length, position>>

GetSubposition(key) ==
    /\ Running
    /\ result' = get_subposition(Format(v, length), position, key)
    /\ call' = Call("get_subposition", key, <<>>, <<>>, <<>>)
    /\ UNCHANGED <<v, length, space, position>>

SetSubposition(key, subposition) ==
    /\ Running
    /\ LET r == set_subposition(Format(v, length), position, key, subposition)
       IN  /\ position' = r.position
           /\ result' = r.res
    /\ call' = Call("set_subposition", key, <<>>, <<>>, <<>>)
    /\ UNCHANGED <<v, length, space>>

GetValue(key, index) ==
    /\ Running
    /\ result' = get_value(Format(v, length), position, key, index)
    /\ call' = Call("get_value", key, <<>>, <<>>, <<>>)
    /\ UNCHANGED <<v, length, space, position>>

SetValue(key, index, value) ==
    /\ Running
    /\ LET r == set_value(Format(v, length), position, key, index, value)
       IN  /\ position' = r.position
           /\ result' = r.res
    /\ call' = Call("set_value", key, <<>>, <<>>, <<>>)
    /\ UNCHANGED <<v, length, space>>

SetBoundary(index, boundary) ==
    /\ Running
    /\ LET r == set_boundary(space, index, boundary)
       IN  /\ space' = r.space
           /\ result' = r.res
    /\ call' = Call("Space::set_boundary", "", <<>>, <<>>, <<>>)
    /\ UNCHANGED <<v, length, position>>

PositionSetValue(index, value) ==
    /\ Running
    /\ LET r == position_set_value(position, index, value)
       IN  /\ position' = r.position
           /\ result' = r.res
    /\ call' = Call("Position::set_value", "", <<>>, <<>>, <<>>)
    /\ UNCHANGED <<v, length, space>>

Next ==
    \/ \E key \in Keys, shape \in AddShapes : add(key, shape)
    \/ NewSpace
    \/ \E rng \in 0..(RngPeriod - 1) : SampleWith(rng)
    \/ \E key \in Keys : GetSubspace(key)
    \/ \E key \in Keys, subspace \in SubSpaces : SetSubspace(key, subspace)
    \/ \E key \in Keys, index \in CellIndices : GetBoundaries(key, index)
    \/ \E key \in Keys, index \in CellIndices, b \in Boundaries :
          SetBoundaries(key, index, b)
    \/ \E key \in Keys : GetSubposition(key)
    \/ \E key \in Keys, subposition \in SubPositions : SetSubposition(key, subposition)
    \/ \E key \in Keys, index \in CellIndices : GetValue(key, index)
    \/ \E key \in Keys, index \in CellIndices, x \in Values : SetValue(key, index, x)
    \/ \E index \in CellIndices, b \in Boundaries : SetBoundary(index, b)
    \/ \E index \in CellIndices, x \in Values : PositionSetValue(index, x)

Spec == Init /\ [][Next]_vars

(* ------------------- calculate_index and the accessors ---------------- *)

\* One call of calculate_index, or of a direct accessor of a Space or a
\* Position made by all() for a shape, with a multi-index of any length: the
\* shape and the index are drawn at the start, the call is made once.
InitIndex ==
    /\ v = FormatDefault.v
    /\ length = FormatDefault.length
    /\ \E shape \in Shapes, index \in Indices :
        /\ space = SpaceAll(INTEGER(0, 0), shape)
        /\ position = PositionAll(IntegerValue(0), shape)
        /\ call = Call("", "", shape, index, <<>>)
    /\ result = Pending

CallCalculateIndex ==
    /\ result = Pending
    /\ call' = [call EXCEPT !.op = "calculate_index"]
    /\ result' = calculate_index(call.shape, call.index)
    /\ UNCHANGED <<v, length, space, position>>

CallGetBoundary ==
    /\ result = Pending
    /\ call' = [call EXCEPT !.op = "Space::get_boundary"]
    /\ result' = get_boundary(space, call.index)
    /\ UNCHANGED <<v, length, space, position>>

CallSetBoundary ==
    /\ result = Pending
    /\ call' = [call EXCEPT !.op = "Space::set_boundary", !.arg = <<FLOAT(1, 1)>>]
    /\ LET r == set_boundary(space, call.index, FLOAT(1, 1))
       IN  /\ space' = r.space
           /\ result' = r.res
    /\ UNCHANGED <<v, length, position>>

CallPositionGetValue ==
    /\ result = Pending
    /\ call' = [call EXCEPT !.op = "Position::get_value"]
    /\ result' = position_get_value(position, call.index)
    /\ UNCHANGED <<v, length, space, position>>

CallPositionSetValue ==
    /\ result = Pending
    /\ call' = [call EXCEPT !.op = "Position::set_value", !.arg = <<FloatValue(1)>>]
    /\ LET r == position_set_value(position, call.index, FloatValue(1))
       IN  /\ position' = r.position
           /\ result' = r.res
    /\ UNCHANGED <<v, length, space>>

NextIndex ==
    \/ CallCalculateIndex
    \/ CallGetBoundary
    \/ CallSetBoundary
    \/ CallPositionGetValue
    \/ CallPositionSetValue

SpecIndex == InitIndex /\ [][NextIndex]_vars

(* ----------------------- Space::new and Position::new ----------------- *)

\* One call of Space::new or Position::new: the dimensions and the flat cells
\* are drawn at the start, the call is made once.  The cells of Space::new
\* are boundaries, those of Position::new values.
InitNew ==
    /\ v = FormatDefault.v
    /\ length = FormatDefault.length
    /\ space = new_space(FormatDefault)
    /\ position = sample_with(new_space(FormatDefault), 0).res.val[1]
    /\ \E dimensions \in Shapes,
          cells \in SeqUpTo(Boundaries, MaxLength) \cup SeqUpTo(Values, MaxLength) :
        call = Call("", "", dimensions, <<>>, cells)
    /\ result = Pending

CallSpaceNew ==
    /\ result = Pending
    /\ call.arg \in SeqUpTo(Boundaries, MaxLength)
    /\ call' = [call EXCEPT !.op = "Space::new"]
    /\ result' = SpaceNew(call.arg, call.shape)
    /\ space' = IF result'.kind = "Ok" THEN result'.val[1] ELSE space
    /\ UNCHANGED <<v, length, position>>

CallPositionNew ==
    /\ result = Pending
    /\ call.arg \in SeqUpTo(Values, MaxLength)
    /\ call' = [call EXCEPT !.op = "Position::new"]
    /\ result' = PositionNew(call.arg, call.shape)
    /\ position' = IF result'.kind = "Ok" THEN result'.val[1] ELSE position
    /\ UNCHANGED <<v, length, space>>

NextNew == CallSpaceNew \/ CallPositionNew

SpecNew == InitNew /\ [][NextNew]_vars

(* ------------------ one write and the read that follows --------------- *)

\* The program registers its keys, makes the Space of the Format, writes one
\* sub-space into it and reads the sub-space of the same key back.  call.arg
\* keeps the sub-space written while it is read back.
RoundTripShapes == {s \in Shapes : product(s) <= MaxLength}

RoundTripSpaces ==
    {SpaceAll(b, d) : b \in Boundaries, d \in RoundTripShapes}
        \cup {SpaceSimple(c) : c \in SeqUpTo(Boundaries, MaxLength)}

RoundTripAdd(key, shape) ==
    /\ call.op \in {"", "add"}
    /\ add(key, shape)

RoundTripNewSpace ==
    /\ call.op \in {"", "add"}
    /\ NewSpace

RoundTripSetSubspace(key, subspace) ==
    /\ call.op = "new_space"
    /\ LET r == set_subspace(Format(v, length), space, key, subspace)
       IN  /\ space' = r.space
           /\ result' = r.res
    /\ call' = Call("set_subspace", key, <<>>, <<>>, <<subspace>>)
    /\ UNCHANGED <<v, length, position>>

RoundTripGetSubspace ==
    /\ call.op = "set_subspace"
    /\ result.kind = "Ok"
    /\ result' = get_subspace(Format(v, length), space, call.key)
    /\ call' = [call EXCEPT !.op = "get_subspace"]
    /\ UNCHANGED <<v, length, space, position>>

NextRoundTrip ==
    \/ \E key \in Keys, shape \in RoundTripShapes : RoundTripAdd(key, shape)
    \/ RoundTripNewSpace
    \/ \E key \in Keys, subspace \in RoundTripSpaces : RoundTripSetSubspace(key, subspace)
    \/ RoundTripGetSubspace

SpecRoundTrip == Init /\ [][NextRoundTrip]_vars

(* -------------------- the comparisons of cells and spaces ------------- *)

\* One call of matches or contains, on two boundaries, a boundary and a value,
\* two values, two Spaces, two Positions or a Space and a Position: call.arg
\* holds the receiver and the argument, drawn at the start; the call is made
\* once and returns a bool.
CompareBoundaries == Boundaries \cup {INTEGER(1, 1)}
CompareValues == Values \cup {IntegerValue(1)}

\* The Spaces and Positions Space::new and Position::new return.
CompareSpaces ==
    {s \in [boundaries : SeqUpTo(CompareBoundaries, MaxLength), dimensions : Shapes] :
        SpaceNew(s.boundaries, s.dimensions).kind = "Ok"}

ComparePositions ==
    {p \in [values : SeqUpTo(CompareValues, MaxLength), dimensions : Shapes] :
        PositionNew(p.values, p.dimensions).kind = "Ok"}

InitCompare ==
    /\ v = FormatDefault.v
    /\ length = FormatDefault.length
    /\ space = new_space(FormatDefault)
    /\ position = sample_with(new_space(FormatDefault), 0).res.val[1]
    /\ \E pair \in (BoundarySet \X BoundarySet) \cup (BoundarySet \X ValueSet)
                      \cup (ValueSet \X ValueSet)
                      \cup (CompareSpaces \X CompareSpaces)
                      \cup (ComparePositions \X ComparePositions)
                      \cup (CompareSpaces \X ComparePositions) :
          call = Call("", "", <<>>, <<>>, pair)
    /\ result = Pending

CallBoundariesMatches ==
    /\ result = Pending
    /\ call.arg \in BoundarySet \X BoundarySet
    /\ call' = [call EXCEPT !.op = "DimensionBoundaries::matches"]
    /\ result' = Ok(<<boundaries_matches(call.arg[1], call.arg[2])>>)
    /\ UNCHANGED <<v, length, space, position>>

CallBoundariesContains ==
    /\ result = Pending
    /\ call.arg \in BoundarySet \X ValueSet
    /\ call' = [call EXCEPT !.op = "DimensionBoundaries::contains"]
    /\ result' = Ok(<<boundaries_contains(call.arg[1], call.arg[2])>>)
    /\ UNCHANGED <<v, length, space, position>>

CallValueMatches ==
    /\ result = Pending
    /\ call.arg \in ValueSet \X ValueSet
    /\ call' = [call EXCEPT !.op = "DimensionValue::matches"]
    /\ result' = Ok(<<value_matches(call.arg[1], call.arg[2])>>)
    /\ UNCHANGED <<v, length, space, position>>

CallSpaceMatches ==
    /\ result = Pending
    /\ call.arg \in CompareSpaces \X CompareSpaces
    /\ call' = [call EXCEPT !.op = "Space::matches"]
    /\ result' = Ok(<<space_matches(call.arg[1], call.arg[2])>>)
    /\ UNCHANGED <<v, length, space, position>>

CallPositionMatches ==
    /\ result = Pending
    /\ call.arg \in ComparePositions \X ComparePositions
    /\ call' = [call EXCEPT !.op = "Position::matches"]
    /\ result' = Ok(<<position_matches(call.arg[1], call.arg[2])>>)
    /\ UNCHANGED <<v, length, space, position>>

CallSpaceContains ==
    /\ result = Pending
    /\ call.arg \in CompareSpaces \X ComparePositions
    /\ call' = [call EXCEPT !.op = "Space::contains"]
    /\ result' = Ok(<<space_contains(call.arg[1], call.arg[2])>>)
    /\ UNCHANGED <<v, length, space, position>>

NextCompare ==
    \/ CallBoundariesMatches
    \/ CallBoundariesContains
    \/ CallValueMatches
    \/ CallSpaceMatches
    \/ CallPositionMatches
    \/ CallSpaceContains

SpecCompare == InitCompare /\ [][NextCompare]_vars

(* ----------------------- Space::all and Position::all ----------------- *)

\* One call of Space::all or Position::all: the dimensions and the cell are
\* drawn at the start, the call is made once and the Space or Position made
\* is kept.
InitAll ==
    /\ v = FormatDefault.v
    /\ length = FormatDefault.length
    /\ space = new_space(FormatDefault)
    /\ position = sample_with(new_space(FormatDefault), 0).res.val[1]
    /\ \E dimensions \in Shapes, cell \in BoundarySet \cup ValueSet :
          call = Call("", "", dimensions, <<>>, <<cell>>)
    /\ result = Pending

CallSpaceAll ==
    /\ result = Pending
    /\ call.arg[1] \in BoundarySet
    /\ call' = [call EXCEPT !.op = "Space::all"]
    /\ space' = SpaceAll(call.arg[1], call.shape)
    /\ result' = Ok(<<space'>>)
    /\ UNCHANGED <<v, length, position>>

CallPositionAll ==
    /\ result = Pending
    /\ call.arg[1] \in ValueSet
    /\ call' = [call EXCEPT !.op = "Position::all"]
    /\ position' = PositionAll(call.arg[1], call.shape)
    /\ result' = Ok(<<position'>>)
    /\ UNCHANGED <<v, length, space>>

NextAll == CallSpaceAll \/ CallPositionAll

SpecAll == InitAll /\ [][NextAll]_vars

(* ------------------------- two runs of sample_with -------------------- *)

\* The Spaces sampled: all() for the shapes of up to MaxLength cells and
\* simple() for up to MaxLength cells, over every boundary of BoundarySet.
SampleSpaces ==
    {SpaceAll(b, d) : b \in BoundarySet, d \in {s \in Shapes : product(s) <= MaxLength}}
        \cup {SpaceSimple(c) : c \in SeqUpTo(BoundarySet, MaxLength)}

\* Two random sources are seeded alike (call.arg holds their states) and the
\* Space is sampled twice, first with the first source, then with the second:
\* position is the Position of the first run, result the outcome of the run
\* made last.
InitSample ==
    /\ v = FormatDefault.v
    /\ length = FormatDefault.length
    /\ space \in SampleSpaces
    /\ position = sample_with(new_space(FormatDefault), 0).res.val[1]
    /\ \E seed \in 0..(RngPeriod - 1) : call = Call("", "", <<>>, <<>>, <<seed, seed>>)
    /\ result = Pending

CallSampleWith ==
    /\ call.op = ""
    /\ \E out \in sample_with_outcomes(space, call.arg[1]) :
        /\ result' = out.res
        /\ position' = IF out.res.kind = "Ok" THEN out.res.val[1] ELSE position
        /\ call' = [call EXCEPT !.op = "sample_with", !.arg = <<out.rng, call.arg[2]>>]
    /\ UNCHANGED <<v, length, space>>

CallSampleWithAgain ==
    /\ call.op = "sample_with"
    /\ result.kind = "Ok"
    /\ \E out \in sample_with_outcomes(space, call.arg[2]) :
        /\ result' = out.res
        /\ call' = [call EXCEPT !.op = "sample_with again", !.arg = <<call.arg[1], out.rng>>]
    /\ UNCHANGED <<v, length, space, position>>

\* space.contains(&space.sample_with(rng)): the Position of the first run is
\* handed to contains of the Space it was sampled from.
CallContainsSample ==
    /\ call.op = "sample_with"
    /\ result.kind = "Ok"
    /\ result' = Ok(<<space_contains(space, position)>>)
    /\ call' = [call EXCEPT !.op = "Space::contains"]
    /\ UNCHANGED <<v, length, space, position>>

NextSample == CallSampleWith \/ CallSampleWithAgain \/ CallContainsSample

SpecSample == InitSample /\ [][NextSample]_vars

(* ------------------ one access through the Format --------------------- *)

\* The program registers its keys, makes the Space of the Format, samples a
\* Position from it and makes one access through the Format, with any key,
\* any multi-index of AccessIndices and any sub-space, sub-position, boundary
\* or value.
\* The multi-indices of the access: every one of up to MaxRank components, and
\* the longer ones with components of 0 and 1.
AccessIndices ==
    {i \in Indices : Len(i) <= MaxRank \/ \A k \in 1..Len(i) : i[k] <= 1}

AccessSampleWith(rng) ==
    /\ call.op = "new_space"
    /\ SampleWith(rng)

AccessGetSubspace(key) ==
    /\ call.op = "sample_with"
    /\ GetSubspace(key)

AccessSetSubspace(key, subspace) ==
    /\ call.op = "sample_with"
    /\ SetSubspace(key, subspace)

AccessGetBoundaries(key, index) ==
    /\ call.op = "sample_with"
    /\ GetBoundaries(key, index)

AccessSetBoundaries(key, index, boundaries) ==
    /\ call.op = "sample_with"
    /\ SetBoundaries(key, index, boundaries)

AccessGetSubposition(key) ==
    /\ call.op = "sample_with"
    /\ GetSubposition(key)

AccessSetSubposition(key, subposition) ==
    /\ call.op = "sample_with"
    /\ SetSubposition(key, subposition)

AccessGetValue(key, index) ==
    /\ call.op = "sample_with"
    /\ GetValue(key, index)

AccessSetValue(key, index, value) ==
    /\ call.op = "sample_with"
    /\ SetValue(key, index, value)

NextAccess ==
    \/ \E key \in Keys, shape \in RoundTripShapes : RoundTripAdd(key, shape)
    \/ RoundTripNewSpace
    \/ \E rng \in 0..(RngPeriod - 1) : AccessSampleWith(rng)
    \/ \E key \in Keys : AccessGetSubspace(key)
    \/ \E key \in Keys, subspace \in RoundTripSpaces : AccessSetSubspace(key, subspace)
    \/ \E key \in Keys, index \in AccessIndices : AccessGetBoundaries(key, index)
    \/ \E key \in Keys, index \in AccessIndices, b \in Boundaries :
          AccessSetBoundaries(key, index, b)
    \/ \E key \in Keys : AccessGetSubposition(key)
    \/ \E key \in Keys, subposition \in SubPositions :
          AccessSetSubposition(key, subposition)
    \/ \E key \in Keys, index \in AccessIndices : AccessGetValue(key, index)
    \/ \E key \in Keys, index \in AccessIndices, x \in Values : AccessSetValue(key, index, x)

SpecAccess == Init /\ [][NextAccess]_vars

(* ------------------------------- the Seed ------------------------------ *)

\* struct Seed { seed_value: Vec<u8> } (src/src/lib.rs): a Seed is modelled
\* by its byte sequence.

\* Longest byte sequence of a Seed: two rounds of the widest array and one byte.
MaxSeedLength == 65

\* The fold of the three Into<[u8; N]> conversions from Rust position i of
\* seed_value on, with the pair (output, index) of the closure:
\*   output[index] = output[index].overflowing_add(v).0;
\*   (output, (index + 1) % n)
\* The mutant adds without wraparound: a sum above 255 stays at 255.
RECURSIVE SeedFoldSaturating(_, _, _, _, _)
SeedFoldSaturating(seed_value, i, output, index, n) ==
    IF i >= Len(seed_value) THEN output
    ELSE SeedFoldSaturating(seed_value, i + 1,
            [output EXCEPT ![index + 1] =
                Min(output[index + 1] + seed_value[i + 1], 255)],
            (index + 1) % n, n)

RECURSIVE SeedFold(_, _, _, _, _)
SeedFold(seed_value, i, output, index, n) ==
    IF i >= Len(seed_value) THEN output
    ELSE SeedFold(seed_value, i + 1,
            [output EXCEPT ![index + 1] =
                (output[index + 1] + seed_value[i + 1]) % 256],
            (index + 1) % n, n)

\* impl Into<[u8; 32]>, Into<[u8; 16]> and Into<[u8; 8]> for Seed
SeedInto32(seed_value) == SeedFold(seed_value, 0, Repeat(0, 32), 0, 32)
SeedInto16(seed_value) == SeedFold(seed_value, 0, Repeat(0, 16), 0, 16)
SeedInto8(seed_value) == SeedFold(seed_value, 0, Repeat(0, 8), 0, 8)

\* A u64 is modelled by its eight base-256 digits, the most significant first.
\* a | b on two bytes.
RECURSIVE BitOr(_, _)
BitOr(a, b) ==
    IF a = 0 THEN b
    ELSE IF b = 0 THEN a
    ELSE (IF a % 2 = 1 \/ b % 2 = 1 THEN 1 ELSE 0) + 2 * BitOr(a \div 2, b \div 2)

\* (input as u64) << (index * 8): the byte input at the digit of weight
\* 256^index.
ShiftedByte(input, index) == [k \in 1..8 |-> IF 8 - k = index THEN input ELSE 0]

\* output | shifted on two u64.
U64Or(output, shifted) == [k \in 1..8 |-> BitOr(output[k], shifted[k])]

\* The mutant of the fold of Into<u64>: index counts up from 0, so byte 0
\* becomes the least significant.
RECURSIVE SeedU64FoldLittleEndian(_, _, _, _)
SeedU64FoldLittleEndian(m, i, output, index) ==
    IF i >= Len(m) THEN output
    ELSE SeedU64FoldLittleEndian(m, i + 1, U64Or(output, ShiftedByte(m[i + 1], i)),
                                 index)

\* The fold of Into<u64> from Rust position i of the array m on, with the pair
\* (output, index) of the closure:
\*   output |= (*input as u64) << (index as u64 * 8);
\*   (output, index.overflowing_sub(1).0)
\* index 0 steps to usize::MAX, written -1; it is not used after that.
RECURSIVE SeedU64Fold(_, _, _, _)
SeedU64Fold(m, i, output, index) ==
    IF i >= Len(m) THEN output
    ELSE SeedU64Fold(m, i + 1, U64Or(output, ShiftedByte(m[i + 1], index)),
                     IF index = 0 THEN -1 ELSE index - 1)

\* impl Into<u64> for Seed
SeedIntoU64(seed_value) == SeedU64Fold(SeedInto8(seed_value), 0, Repeat(0, 8), 7)

\* The byte sequences drawn: the bytes first, first + step, ... (mod 256) of
\* every length up to MaxSeedLength, and every sequence of up to three bytes
\* of 0 and 255.
SeedRamp(first, step, len) == [i \in 1..len |-> (first + step * (i - 1)) % 256]

SeedValues ==
    {SeedRamp(first, step, len) :
        first \in {0, 1, 200, 255}, step \in {0, 1, 3}, len \in 0..MaxSeedLength}
        \cup SeqUpTo({0, 255}, 3)

\* One conversion of a Seed: call.arg holds seed_value, drawn at the start;
\* the conversion is made once and returns the array.
InitSeed ==
    /\ v = FormatDefault.v
    /\ length = FormatDefault.length
    /\ space = new_space(FormatDefault)
    /\ position = sample_with(new_space(FormatDefault), 0).res.val[1]
    /\ \E seed_value \in SeedValues : call = Call("", "", <<>>, <<>>, seed_value)
    /\ result = Pending

CallSeedInto32 ==
    /\ result = Pending
    /\ call' = [call EXCEPT !.op = "Into<[u8; 32]>"]
    /\ result' = Ok(<<SeedInto32(call.arg)>>)
    /\ UNCHANGED <<v, length, space, position>>

CallSeedInto16 ==
    /\ result = Pending
    /\ call' = [call EXCEPT !.op = "Into<[u8; 16]>"]
    /\ result' = Ok(<<SeedInto16(call.arg)>>)
    /\ UNCHANGED <<v, length, space, position>>

CallSeedInto8 ==
    /\ result = Pending
    /\ call' = [call EXCEPT !.op = "Into<[u8; 8]>"]
    /\ result' = Ok(<<SeedInto8(call.arg)>>)
    /\ UNCHANGED <<v, length, space, position>>

CallSeedIntoU64 ==
    /\ result = Pending
    /\ call' = [call EXCEPT !.op = "Into<u64>"]
    /\ result' = Ok(<<SeedIntoU64(call.arg)>>)
    /\ UNCHANGED <<v, length, space, position>>

NextSeed == CallSeedInto32 \/ CallSeedInto16 \/ CallSeedInto8 \/ CallSeedIntoU64

SpecSeed == InitSeed /\ [][NextSeed]_vars

(* ------------------- matrices and 2D transformations ------------------ *)

\* A [[f64; 3]; 3] matrix (src/src/math.rs) is a sequence of three rows of
\* three entries: the Rust entry matrix[i][j] is matrix[i + 1][j + 1].  The
\* entries are restricted to integers, and a quotient a / b is kept as the
\* fraction [num |-> a, den |-> b].

\* determinant_of_matrix_3x3(matrix): the six products as the code writes them.
determinant_of_matrix_3x3(matrix) ==
    matrix[1][1] * matrix[2][2] * matrix[3][3]
        + matrix[2][1] * matrix[3][2] * matrix[1][3]
        + matrix[3][1] * matrix[1][2] * matrix[2][3]
        - matrix[3][1] * matrix[2][2] * matrix[3][3]
        - matrix[2][1] * matrix[1][2] * matrix[3][3]
        - matrix[1][1] * matrix[3][2] * matrix[2][3]

\* a / b
Quotient(a, b) == [num |-> a, den |-> b]

\* inverse_of_matrix_3x3(matrix)
inverse_of_matrix_3x3(matrix) ==
    LET determinant == determinant_of_matrix_3x3(matrix)
    IN  << << Quotient(matrix[2][2] * matrix[3][3] - matrix[2][3] * matrix[3][2], determinant),
              Quotient(matrix[1][3] * matrix[3][2] - matrix[1][2] * matrix[3][3], determinant),
              Quotient(matrix[1][2] * matrix[2][3] - matrix[1][3] * matrix[2][2], determinant) >>,
           << Quotient(matrix[2][3] * matrix[3][1] - matrix[2][1] * matrix[3][3], determinant),
              Quotient(matrix[1][1] * matrix[3][3] - matrix[1][3] * matrix[3][1], determinant),
              Quotient(matrix[1][3] * matrix[2][1] - matrix[1][1] * matrix[2][3], determinant) >>,
           << Quotient(matrix[2][1] * matrix[3][2] - matrix[2][2] * matrix[3][1], determinant),
              Quotient(matrix[1][2] * matrix[3][1] - matrix[1][1] * matrix[3][2], determinant),
              Quotient(matrix[1][1] * matrix[2][2] - matrix[1][2] * matrix[2][1], determinant) >> >>

\* The matrices drawn: every matrix with entries of -1, 0, 1 and the matrix
\* of tests::determinant_of_matrix_3x3_works.
TestMatrix == << <<2, -1, 0>>, <<-1, 2, -1>>, <<0, -1, 2>> >>

Matrices == [1..3 -> [1..3 -> {-1, 0, 1}]] \cup {TestMatrix}

\* multiply_matrices_3x3(matrix_a, matrix_b): the entry [r][c] of the result
\* is the sum over k of matrix_a[k][c] * matrix_b[r][k].
multiply_matrices_3x3(matrix_a, matrix_b) ==
    [r \in 1..3 |-> [c \in 1..3 |->
        matrix_a[1][c] * matrix_b[r][1]
            + matrix_a[2][c] * matrix_b[r][2]
            + matrix_a[3][c] * matrix_b[r][3]]]

\* enum Transformation2D.  The variants with an angle (Rotation, ShearXDegree,
\* ShearYDegree) are left out: their matrices are not integral.  A name is a
\* sequence of strings; x and y hold the parameters of a variant.
Transformation2D ==
    [kind |-> "", name |-> <<>>, x |-> 0, y |-> 0, transformations |-> <<>>,
     transformation |-> <<>>]

Translation(x, y) == [Transformation2D EXCEPT !.kind = "Translation", !.x = x, !.y = y]
Identity == [Transformation2D EXCEPT !.kind = "Identity"]
Scale(x_factor, y_factor) ==
    [Transformation2D EXCEPT !.kind = "Scale", !.x = x_factor, !.y = y_factor]
IsotropicScale(factor) == [Transformation2D EXCEPT !.kind = "IsotropicScale", !.x = factor]
ReflectionX == [Transformation2D EXCEPT !.kind = "ReflectionX"]
ReflectionY == [Transformation2D EXCEPT !.kind = "ReflectionY"]
ShearX(amount) == [Transformation2D EXCEPT !.kind = "ShearX", !.x = amount]
ShearY(amount) == [Transformation2D EXCEPT !.kind = "ShearY", !.x = amount]
Composition(name, transformations) ==
    [Transformation2D EXCEPT !.kind = "Composition", !.name = name,
                             !.transformations = transformations]
Custom(name, transformation) ==
    [Transformation2D EXCEPT !.kind = "Custom", !.name = name,
                             !.transformation = transformation]

IdentityMatrix == << <<1, 0, 0>>, <<0, 1, 0>>, <<0, 0, 1>> >>

\* transformations.iter().map(..).reduce(multiply_matrices_3x3) from the
\* matrix acc and position i on.
RECURSIVE ReduceMatrices(_, _, _)
ReduceMatrices(matrices, i, acc) ==
    IF i > Len(matrices) THEN acc
    ELSE ReduceMatrices(matrices, i + 1, multiply_matrices_3x3(acc, matrices[i]))

\* Transformation2D::transformation_matrix(&self)
RECURSIVE transformation_matrix(_)
transformation_matrix(t) ==
    CASE t.kind = "Translation" -> << <<1, 0, t.x>>, <<0, 1, t.y>>, <<0, 0, 1>> >>
      [] t.kind = "Identity" -> IdentityMatrix
      [] t.kind = "Scale" -> << <<t.x, 0, 0>>, <<0, t.y, 0>>, <<0, 0, 1>> >>
      [] t.kind = "IsotropicScale" -> << <<t.x, 0, 0>>, <<0, t.x, 0>>, <<0, 0, 1>> >>
      [] t.kind = "ReflectionX" -> << <<-1, 0, 0>>, <<0, 1, 0>>, <<0, 0, 1>> >>
      [] t.kind = "ReflectionY" -> << <<1, 0, 0>>, <<0, -1, 0>>, <<0, 0, 1>> >>
      [] t.kind = "ShearX" -> << <<1, t.x, 0>>, <<0, 1, 0>>, <<0, 0, 1>> >>
      [] t.kind = "ShearY" -> << <<1, 0, 0>>, <<t.x, 1, 0>>, <<0, 0, 1>> >>
      [] t.kind = "Composition" ->
            IF t.transformations = <<>> THEN IdentityMatrix
            ELSE ReduceMatrices(
                    [i \in 1..Len(t.transformations) |->
                        transformation_matrix(t.transformations[i])],
                    2, transformation_matrix(t.transformations[1]))
      [] t.kind = "Custom" -> t.transformation

\* Transformation2D::reverse(self).  The name format!("Reverse-{:?}", ..) is
\* "Reverse" put before the name of a Composition, or before the variant of
\* any other transformation.
RECURSIVE reverse(_)
reverse(t) ==
    IF t.kind = "Composition"
    THEN Composition(<<"Reverse">> \o t.name,
                     [i \in 1..Len(t.transformations) |-> reverse(t.transformations[i])])
    ELSE Custom(<<"Reverse", t.kind>>, inverse_of_matrix_3x3(transformation_matrix(t)))

\* Transformations2D::reverse(self) on the list self.transformations:
\* self.transformations.reverse(), then reverse() of every element.
transformations_reverse(transformations) ==
    LET reversed == [i \in 1..Len(transformations) |->
                        transformations[Len(transformations) - i + 1]]
    IN  [i \in 1..Len(reversed) |-> reverse(reversed[i])]

\* Largest number of children of a Composition of leaves.
MaxChildren == 2

\* The transformations drawn: leaves with invertible matrices, Compositions
\* of up to MaxChildren leaves, and Compositions of such a Composition and a
\* leaf, in both orders.
Leaves ==
    {Identity, Translation(1, 2), Scale(2, 1), ReflectionX, ShearX(1),
     Custom(<<"m">>, << <<1, 0, 0>>, <<0, 1, 0>>, <<1, 0, 1>> >>)}

LeafCompositions == {Composition(<<"c">>, ts) : ts \in SeqUpTo(Leaves, MaxChildren)}

Transformations ==
    Leaves \cup LeafCompositions
        \cup {Composition(<<"d">>, <<c, l>>) : c \in LeafCompositions, l \in Leaves}
        \cup {Composition(<<"d">>, <<l, c>>) : c \in LeafCompositions, l \in Leaves}

\* One call of a function of math.rs: call.arg holds the matrix or the
\* transformation, drawn at the start; the call is made once.
InitMath ==
    /\ v = FormatDefault.v
    /\ length = FormatDefault.length
    /\ space = new_space(FormatDefault)
    /\ position = sample_with(new_space(FormatDefault), 0).res.val[1]
    /\ \/ \E matrix \in Matrices : call = Call("matrix", "", <<>>, <<>>, <<matrix>>)
       \/ \E t \in Transformations : call = Call("transformation", "", <<>>, <<>>, <<t>>)
    /\ result = Pending

CallDeterminant ==
    /\ result = Pending
    /\ call.op = "matrix"
    /\ call' = [call EXCEPT !.op = "determinant_of_matrix_3x3"]
    /\ result' = Ok(<<determinant_of_matrix_3x3(call.arg[1])>>)
    /\ UNCHANGED <<v, length, space, position>>

CallInverse ==
    /\ result = Pending
    /\ call.op = "matrix"
    /\ call' = [call EXCEPT !.op = "inverse_of_matrix_3x3"]
    /\ result' = Ok(<<inverse_of_matrix_3x3(call.arg[1])>>)
    /\ UNCHANGED <<v, length, space, position>>

CallReverse ==
    /\ result = Pending
    /\ call.op = "transformation"
    /\ call' = [call EXCEPT !.op = "Transformation2D::reverse"]
    /\ result' = Ok(<<reverse(call.arg[1])>>)
    /\ UNCHANGED <<v, length, space, position>>

CallTransformationsReverse ==
    /\ result = Pending
    /\ call.op = "transformation"
    /\ call.arg[1].kind = "Composition"
    /\ call' = [call EXCEPT !.op = "Transformations2D::reverse"]
    /\ result' = Ok(<<transformations_reverse(call.arg[1].transformations)>>)
    /\ UNCHANGED <<v, length, space, position>>

NextMath ==
    \/ CallDeterminant
    \/ CallInverse
    \/ CallReverse
    \/ CallTransformationsReverse

SpecMath == InitMath /\ [][NextMath]_vars

(* ------------------ two multi-indices of one shape -------------------- *)

\* The shapes of the pairs: those of Shapes, and the shapes of one dimension
\* more without an extent of 0.
PairShapes == Shapes \cup [1..(MaxRank + 1) -> 1..MaxExtent]

\* The multi-indices of the length of shape with every component below the
\* extent of its dimension.
FullIndices(shape) ==
    {i \in [1..Len(shape) -> 0..MaxExtent] : \A k \in 1..Len(shape) : i[k] < shape[k]}

\* A Space and a Position made by all() for a shape and two multi-indices of
\* its length, in range: call.index is the first one, call.arg holds the
\* second one.  One action computes the two offsets, the other ones write
\* the cell of the first multi-index and read the cell of the second one.
InitPair ==
    /\ v = FormatDefault.v
    /\ length = FormatDefault.length
    /\ \E shape \in PairShapes :
        \E i \in FullIndices(shape), j \in FullIndices(shape) :
            /\ space = SpaceAll(INTEGER(0, 0), shape)
            /\ position = PositionAll(IntegerValue(0), shape)
            /\ call = Call("", "", shape, i, <<j>>)
    /\ result = Pending

PairCalculateIndex ==
    /\ result = Pending
    /\ call' = [call EXCEPT !.op = "calculate_index"]
    /\ result' = Ok(<<calculate_index(call.shape, call.index),
                      calculate_index(call.shape, call.arg[1])>>)
    /\ UNCHANGED <<v, length, space, position>>

PairPositionSetGet ==
    /\ result = Pending
    /\ call' = [call EXCEPT !.op = "Position::set_value"]
    /\ LET r == position_set_value(position, call.index, FloatValue(1))
       IN  /\ position' = r.position
           /\ result' = IF r.res.kind # "Ok" THEN r.res
                        ELSE position_get_value(r.position, call.arg[1])
    /\ UNCHANGED <<v, length, space>>

PairSpaceSetGet ==
    /\ result = Pending
    /\ call' = [call EXCEPT !.op = "Space::set_boundary"]
    /\ LET r == set_boundary(space, call.index, FLOAT(1, 1))
       IN  /\ space' = r.space
           /\ result' = IF r.res.kind # "Ok" THEN r.res
                        ELSE get_boundary(r.space, call.arg[1])
    /\ UNCHANGED <<v, length, position>>

NextPair ==
    \/ PairCalculateIndex
    \/ PairPositionSetGet
    \/ PairSpaceSetGet

SpecPair == InitPair /\ [][NextPair]_vars

(* ----------------- the generic boundaries of lib.rs ------------------- *)

\* A continuous number (type C) is held as its multiple of 1/Parts, a whole
\* number of parts; a discrete number (type D) is held as it is.
Parts == 2

\* D::to_f64 / D::to_i64 into the continuous numbers, C::floor and C::ceil.
ToContinuous(d) == d * Parts
Floor(c) == (c \div Parts) * Parts
Ceil(c) == 0 - ((0 - c) \div Parts) * Parts

\* enum DimensionBoundaries<D, C> { DISCRETE { minimum, maximum },
\* CONTINUOUS { minimum, maximum }, MULTIPLE(Vec<..>) } and enum
\* DimensionValue<D, C> { DISCRETE(D), CONTINUOUS(C), MULTIPLE(Vec<..>) }.
DISCRETE(minimum, maximum) ==
    [tag |-> "DISCRETE", minimum |-> minimum, maximum |-> maximum, values |-> <<>>]
CONTINUOUS(minimum, maximum) ==
    [tag |-> "CONTINUOUS", minimum |-> minimum, maximum |-> maximum, values |-> <<>>]
MULTIPLE(values) ==
    [tag |-> "MULTIPLE", minimum |-> 0, maximum |-> 0, values |-> values]

DiscreteValue(val) == [tag |-> "DISCRETE", val |-> val, values |-> <<>>]
ContinuousValue(val) == [tag |-> "CONTINUOUS", val |-> val, values |-> <<>>]
MultipleValue(values) == [tag |-> "MULTIPLE", val |-> 0, values |-> values]

\* The mutant of the arm of a CONTINUOUS value in DISCRETE boundaries: no
\* continuous value is accepted.
DiscreteContainsContinuousNever(minimum, maximum, val) == FALSE

\* The arm DimensionValue::CONTINUOUS(val) of DISCRETE boundaries: a val
\* without a fractional part is compared as a whole number.
DiscreteContainsContinuous(minimum, maximum, val) ==
    IF Floor(val) - val = 0
    THEN ToContinuous(minimum) <= Floor(val) /\ Ceil(val) <= ToContinuous(maximum)
    ELSE FALSE

\* DimensionBoundaries<D, C>::contains(&self, value)
RECURSIVE contains(_, _)
contains(self, value) ==
    CASE self.tag = "DISCRETE" ->
            (CASE value.tag = "DISCRETE" ->
                    self.minimum <= value.val /\ value.val <= self.maximum
               [] value.tag = "CONTINUOUS" ->
                    DiscreteContainsContinuous(self.minimum, self.maximum, value.val)
               [] OTHER -> FALSE)
      [] self.tag = "CONTINUOUS" ->
            (CASE value.tag = "CONTINUOUS" ->
                    self.minimum <= value.val /\ value.val <= self.maximum
               [] value.tag = "DISCRETE" ->
                    /\ self.minimum <= ToContinuous(value.val)
                    /\ ToContinuous(value.val) <= self.maximum
               [] OTHER -> FALSE)
      [] self.tag = "MULTIPLE" ->
            (CASE value.tag = "MULTIPLE" ->
                    /\ Len(self.values) = Len(value.values)
                    /\ ~ \E i \in 1..Min(Len(self.values), Len(value.values)) :
                            ~ contains(self.values[i], value.values[i])
               [] OTHER -> FALSE)

\* The numbers drawn: the discrete ones 0..MaxValue, the continuous ones
\* 0, 1/Parts, .. up to MaxValue.
DiscreteNumbers == 0..MaxValue
ContinuousNumbers == 0..(Parts * MaxValue)

\* The boundaries and values drawn: every DISCRETE and CONTINUOUS one over the
\* numbers, and MULTIPLE ones of up to MaxLength elements, an element being
\* one of a few leaves or a MULTIPLE of one leaf.
GenericLeafBoundaries ==
    {DISCRETE(a, b) : a \in DiscreteNumbers, b \in DiscreteNumbers}
        \cup {CONTINUOUS(a, b) : a \in ContinuousNumbers, b \in ContinuousNumbers}

GenericLeafValues ==
    {DiscreteValue(d) : d \in DiscreteNumbers}
        \cup {ContinuousValue(c) : c \in ContinuousNumbers}

ElementBoundaries == {DISCRETE(1, MaxValue), CONTINUOUS(0, Parts)}

ElementValues ==
    {DiscreteValue(0), DiscreteValue(1), ContinuousValue(1), ContinuousValue(Parts)}

GenericBoundaries ==
    GenericLeafBoundaries
        \cup {MULTIPLE(s) :
                s \in SeqUpTo(ElementBoundaries
                                \cup {MULTIPLE(<<e>>) : e \in ElementBoundaries},
                              MaxLength)}

GenericValues ==
    GenericLeafValues
        \cup {MultipleValue(s) :
                s \in SeqUpTo(ElementValues
                                \cup {MultipleValue(<<e>>) : e \in ElementValues},
                              MaxLength)}

\* One call of contains: call.arg holds the boundaries and the value, drawn
\* at the start; the call is made once.
InitGeneric ==
    /\ v = FormatDefault.v
    /\ length = FormatDefault.length
    /\ space = new_space(FormatDefault)
    /\ position = sample_with(new_space(FormatDefault), 0).res.val[1]
    /\ \E b \in GenericBoundaries, x \in GenericValues :
          call = Call("", "", <<>>, <<>>, <<b, x>>)
    /\ result = Pending

CallContains ==
    /\ result = Pending
    /\ call' = [call EXCEPT !.op = "DimensionBoundaries::contains"]
    /\ result' = Ok(<<contains(call.arg[1], call.arg[2])>>)
    /\ UNCHANGED <<v, length, space, position>>

NextGeneric == CallContains

SpecGeneric == InitGeneric /\ [][NextGeneric]_vars

(* ------------------------------- claims ------------------------------- *)

\* The flat positions [offset, offset + length) of an entry of the Format.
Range(sf) == sf.offset..(sf.offset + sf.length - 1)

\* product(dimensions) == number of flat cells.
SpaceShapeHolds(s) == product(s.dimensions) = Len(s.boundaries)
PositionShapeHolds(p) == product(p.dimensions) = Len(p.values)

RECURSIVE SumOfProducts(_, _)
SumOfProducts(fv, ks) ==
    IF ks = {} THEN 0
    ELSE LET k == CHOOSE x \in ks : TRUE
         IN  product(fv[k].shape) + SumOfProducts(fv, ks \ {k})

\* C2: after any sequence of add calls, successful or failing, on the empty
\* Format: the ranges [offset, offset + length) of the keys are pairwise
\* disjoint, each entry's length is product(shape), the ranges together are
\* exactly [0, Format.length), and Format.length is the sum of product(shape)
\* over the keys.
C2_DisjointCover ==
    /\ \A k \in DOMAIN v : v[k].length = product(v[k].shape)
    /\ \A k1, k2 \in DOMAIN v : k1 # k2 => Range(v[k1]) \cap Range(v[k2]) = {}
    /\ UNION {Range(v[k]) : k \in DOMAIN v} = 0..(length - 1)
    /\ length = SumOfProducts(v, DOMAIN v)

\* C2 witness: two keys with one cell each are registered, and the add made
\* last has failed.
C2_Witness ==
    /\ call.op = "add"
    /\ result.kind = "Err"
    /\ Cardinality(DOMAIN v) = 2
    /\ \A k \in DOMAIN v : v[k].length = 1

\* sum over i in 1..n of index[i] * shape[i - 1], in Rust positions.
RECURSIVE StrideSum(_, _, _)
StrideSum(shape, index, n) ==
    IF n < 1 THEN 0 ELSE index[n + 1] * shape[n] + StrideSum(shape, index, n - 1)

\* index[0] + sum over i in 1..len(index) of index[i] * shape[i - 1]; 0 for
\* the empty index.
StrideOffset(shape, index) ==
    IF index = <<>> THEN 0 ELSE index[1] + StrideSum(shape, index, Len(index) - 1)

\* An index with no more components than the shape has dimensions, each
\* below the extent of its dimension.
InRange(shape, index) ==
    /\ Len(index) <= Len(shape)
    /\ \A i \in 1..Len(index) : index[i] < shape[i]

\* C3: for every shape and every in-range multi-index calculate_index
\* returns index[0] + sum over i in 1..len(index) of index[i] * shape[i - 1],
\* and 0 for the empty index; calculate_index([2,2,3], [1,1,2]) = 7.
C3_StrideFormula ==
    /\ (call.op = "calculate_index" /\ InRange(call.shape, call.index)
            => result = Ok(<<StrideOffset(call.shape, call.index)>>))
    /\ calculate_index(<<2, 2, 3>>, <<1, 1, 2>>) = Ok(<<7>>)

\* C3 witness: calculate_index has returned for an in-range index of two
\* components whose second one is scaled by an extent of 2.
C3_Witness ==
    /\ call.op = "calculate_index"
    /\ InRange(call.shape, call.index)
    /\ Len(call.index) = 2
    /\ call.index[2] = 1
    /\ call.shape[1] = 2
    /\ result.kind = "Ok"

\* C4: Space::new and Position::new return Ok, holding exactly the given
\* cells and dimensions, if and only if product(dimensions) equals the
\* number of cells, and Err(GivenDimensionsDoNotMatch) otherwise.
C4_NewChecksProduct ==
    /\ (call.op = "Space::new" =>
            IF product(call.shape) = Len(call.arg)
            THEN /\ result = Ok(<<[boundaries |-> call.arg, dimensions |-> call.shape]>>)
                 /\ space = [boundaries |-> call.arg, dimensions |-> call.shape]
            ELSE result = Err(GivenDimensionsDoNotMatch))
    /\ (call.op = "Position::new" =>
            IF product(call.shape) = Len(call.arg)
            THEN /\ result = Ok(<<[values |-> call.arg, dimensions |-> call.shape]>>)
                 /\ position = [values |-> call.arg, dimensions |-> call.shape]
            ELSE result = Err(GivenDimensionsDoNotMatch))

\* C4 witness: Space::new has returned Ok for two cells and two dimensions.
C4_Witness ==
    /\ call.op = "Space::new"
    /\ result.kind = "Ok"
    /\ Len(call.shape) = 2
    /\ Len(call.arg) = 2

\* C5 as stated: set_subspace of a Space s whose flat length equals
\* product(shape) succeeds, and the get_subspace that follows returns Ok(s).
C5_RoundTripEqual ==
    /\ (call.op = "set_subspace" /\ call.key \in DOMAIN v
          /\ Len(call.arg[1].boundaries) = product(v[call.key].shape)
            => result = Ok(<<>>))
    /\ (call.op = "get_subspace" => result = Ok(call.arg))

\* C5 as amended: set_subspace of a Space s whose flat length equals
\* product(shape) succeeds, and the get_subspace that follows returns Ok of
\* the Space with the flat cells of s and the registered shape as its
\* dimensions, which is s exactly when s.dimensions is the registered shape.
C5_RoundTripCells ==
    /\ (call.op = "set_subspace" /\ call.key \in DOMAIN v
          /\ Len(call.arg[1].boundaries) = product(v[call.key].shape)
            => result = Ok(<<>>))
    /\ (call.op = "get_subspace" =>
          /\ result = Ok(<<[boundaries |-> call.arg[1].boundaries,
                            dimensions |-> v[call.key].shape]>>)
          /\ (result = Ok(call.arg) <=> call.arg[1].dimensions = v[call.key].shape))

\* C5 witness: a sub-space whose dimensions are not the registered shape has
\* been written at an offset past 0 and read back.
C5_Witness ==
    /\ call.op = "get_subspace"
    /\ result.kind = "Ok"
    /\ v[call.key].offset >= 1
    /\ Len(call.arg[1].boundaries) >= 1
    /\ call.arg[1].boundaries[1] = FLOAT(1, 1)
    /\ call.arg[1].dimensions # v[call.key].shape

\* C6: a successful set_subspace (and set_subposition) changes only the flat
\* cells in the range of its key: every other cell, the dimensions of the
\* target, the other target and the Format are unchanged, and get_subspace
\* (get_subposition) of every other key returns what it returned before.
C6_SubWriteFrame ==
    [][/\ (call'.op = "set_subspace" /\ result'.kind = "Ok" =>
            /\ v' = v /\ length' = length /\ position' = position
            /\ space'.dimensions = space.dimensions
            /\ Len(space'.boundaries) = Len(space.boundaries)
            /\ \A i \in 1..Len(space.boundaries) :
                  (i - 1) \notin Range(v[call'.key])
                      => space'.boundaries[i] = space.boundaries[i]
            /\ \A k \in Keys \ {call'.key} :
                  get_subspace(Format(v', length'), space', k)
                      = get_subspace(Format(v, length), space, k))
       /\ (call'.op = "set_subposition" /\ result'.kind = "Ok" =>
            /\ v' = v /\ length' = length /\ space' = space
            /\ position'.dimensions = position.dimensions
            /\ Len(position'.values) = Len(position.values)
            /\ \A i \in 1..Len(position.values) :
                  (i - 1) \notin Range(v[call'.key])
                      => position'.values[i] = position.values[i]
            /\ \A k \in Keys \ {call'.key} :
                  get_subposition(Format(v', length'), position', k)
                      = get_subposition(Format(v, length), position, k))]_vars

\* C6 witness: a sub-space has been written into the range of the second of
\* two keys of one cell each while the cell of the first one holds another
\* boundary.
C6_Witness ==
    /\ call.op = "set_subspace"
    /\ result.kind = "Ok"
    /\ Cardinality(DOMAIN v) = 2
    /\ \A k \in DOMAIN v : v[k].length = 1
    /\ v[call.key].offset = 1
    /\ Len(space.boundaries) = 2
    /\ space.boundaries[1] = FLOAT(1, 1)
    /\ space.boundaries[2] = INTEGER(0, 0)

\* C7: for a registered key, set_subspace (set_subposition) of a sub-space
\* (sub-position) whose flat length is not the registered length returns
\* Err(GivenSpaceDoesNotFit{needed, given}) with needed = the registered
\* length and given = the supplied flat length, and leaves the target as it
\* was.
C7_DoesNotFit ==
    [][/\ (call'.op = "set_subspace" /\ call'.key \in DOMAIN v =>
            \A s \in SubSpaces :
                SetSubspace(call'.key, s) /\ Len(s.boundaries) # v[call'.key].length
                    => /\ result' = Err([NoError EXCEPT
                                            !.name = "GivenSpaceDoesNotFit",
                                            !.needed = v[call'.key].length,
                                            !.given = Len(s.boundaries)])
                       /\ space' = space)
       /\ (call'.op = "set_subposition" /\ call'.key \in DOMAIN v =>
            \A p \in SubPositions :
                SetSubposition(call'.key, p) /\ Len(p.values) # v[call'.key].length
                    => /\ result' = Err([NoError EXCEPT
                                            !.name = "GivenSpaceDoesNotFit",
                                            !.needed = v[call'.key].length,
                                            !.given = Len(p.values)])
                       /\ position' = position)]_vars

\* C7 witness: set_subposition of one value for a key of two cells has failed.
C7_Witness ==
    /\ call.op = "set_subposition"
    /\ result.kind = "Err"
    /\ result.err.name = "GivenSpaceDoesNotFit"
    /\ result.err.needed = 2
    /\ result.err.given = 1

\* C8: Format::add with a registered key returns
\* Err(KeyAlreadyExistsInFormat(key)) and leaves the Format unchanged; with a
\* new key it returns Ok, registers the key with the given shape at offset =
\* the previous total length, keeps every other entry, and increases the
\* total length by exactly product(shape).
C8_AddEffect ==
    [][call'.op = "add" =>
        \A key \in Keys, shape \in AddShapes :
          add(key, shape) =>
            IF key \in DOMAIN v
            THEN /\ result' = Err(KeyAlreadyExistsInFormat(key))
                 /\ v' = v
                 /\ length' = length
            ELSE /\ result' = Ok(<<>>)
                 /\ DOMAIN v' = DOMAIN v \cup {key}
                 /\ v'[key].offset = length
                 /\ v'[key].shape = shape
                 /\ \A k \in DOMAIN v : v'[k] = v[k]
                 /\ length' = length + product(shape)]_vars

\* C8 witness: an add with a registered key has failed on a Format of two keys.
C8_Witness ==
    /\ call.op = "add"
    /\ result = Err(KeyAlreadyExistsInFormat(call.key))
    /\ Cardinality(DOMAIN v) = 2
    /\ length = MaxLength

\* C9 as stated: for a registered key and a Space and Position of the flat
\* length of the Format, get_boundaries, set_boundaries, get_value and
\* set_value never panic: they return Ok or the wrapped error
\* SpaceIndexError(IndexOutOfBounds) / PositionIndexError(IndexOutOfBounds),
\* and on an error the target is unchanged.
C9_NeverAbort ==
    [][(/\ call'.op \in {"get_boundaries", "set_boundaries", "get_value", "set_value"}
        /\ call'.key \in DOMAIN v
        /\ Len(space.boundaries) = length
        /\ Len(position.values) = length)
          => /\ result'.kind \in {"Ok", "Err"}
             /\ (result'.kind = "Err" =>
                    /\ result'.err = (IF call'.op \in {"get_boundaries", "set_boundaries"}
                                      THEN SpaceIndexError(IndexOutOfBounds)
                                      ELSE PositionIndexError(IndexOutOfBounds))
                    /\ space' = space
                    /\ position' = position)]_vars

\* Some component of the index is at or above the extent of its dimension.
ComponentOutOfBounds(shape, index) ==
    \E i \in 1..Len(index) : i <= Len(shape) /\ index[i] >= shape[i]

\* C10 as stated: calculate_index fails with IndexOutOfBounds exactly when
\* some index component is at or above the extent of its dimension; the
\* direct accessors of Space and Position panic in exactly that case, and
\* otherwise return without a panic, having accessed the cell at the
\* computed flat offset.
C10_AbortExactlyWhenOutOfBounds ==
    /\ (call.op = "calculate_index" =>
          (result = Err(IndexOutOfBounds)
              <=> ComponentOutOfBounds(call.shape, call.index)))
    /\ (call.op \in {"Space::get_boundary", "Space::set_boundary",
                     "Position::get_value", "Position::set_value"} =>
          IF ComponentOutOfBounds(call.shape, call.index)
          THEN result.kind = "Panic"
          ELSE /\ result.kind = "Ok"
               /\ (InRange(call.shape, call.index) /\ call.op = "Space::set_boundary"
                      => space.boundaries[StrideOffset(call.shape, call.index) + 1]
                            = call.arg[1])
               /\ (InRange(call.shape, call.index) /\ call.op = "Position::set_value"
                      => position.values[StrideOffset(call.shape, call.index) + 1]
                            = call.arg[1]))

\* Every pair of cells at the same flat position has the same variant.
AllPairsSameVariant(a, b) ==
    \A i \in 1..Min(Len(a), Len(b)) : a[i].tag = b[i].tag

\* C11 as stated: Space::matches(other) is true if and only if the two
\* dimensions sequences are equal and every pair of boundaries at the same
\* flat position has the same variant; Position::matches(other) is true if and
\* only if the dimensions are equal and every pair of values at the same flat
\* position has the same variant.
C11_MatchesAllPairs ==
    /\ (call.op = "Space::matches" =>
          result = Ok(<<(/\ call.arg[1].dimensions = call.arg[2].dimensions
                         /\ AllPairsSameVariant(call.arg[1].boundaries,
                                                call.arg[2].boundaries))>>))
    /\ (call.op = "Position::matches" =>
          result = Ok(<<(/\ call.arg[1].dimensions = call.arg[2].dimensions
                         /\ AllPairsSameVariant(call.arg[1].values,
                                                call.arg[2].values))>>))

\* The boundary at the flat position contains the value.
InsideBoundary(b, x) == b.tag = x.tag /\ b.min <= x.val /\ x.val <= b.max

\* C12 as stated: Space::contains(position) is true if and only if the
\* dimensions of the Space and of the Position are equal and, for every flat
\* cell, the boundary at that cell contains the value of the Position at that
\* cell.
C12_ContainsAllCells ==
    call.op = "Space::contains" =>
        result = Ok(<<(/\ call.arg[1].dimensions = call.arg[2].dimensions
                       /\ \A i \in 1..Min(Len(call.arg[1].boundaries),
                                          Len(call.arg[2].values)) :
                             InsideBoundary(call.arg[1].boundaries[i],
                                            call.arg[2].values[i]))>>)

\* C13: DimensionBoundaries::contains(value) is true if and only if the value
\* has the variant of the boundary and min <= value <= max, both ends
\* included; a value of the other variant is never contained.  INTEGER(1, 2)
\* contains INTEGER(1), and neither INTEGER(3) nor FLOAT(1).
C13_BoundaryContains ==
    call.op = "DimensionBoundaries::contains" =>
        /\ result = Ok(<<InsideBoundary(call.arg[1], call.arg[2])>>)
        /\ (call.arg[1].tag # call.arg[2].tag => result = Ok(<<FALSE>>))
        /\ (call.arg = <<INTEGER(1, 2), IntegerValue(1)>> => result = Ok(<<TRUE>>))
        /\ (call.arg = <<INTEGER(1, 2), IntegerValue(3)>> => result = Ok(<<FALSE>>))
        /\ (call.arg = <<INTEGER(1, 2), FloatValue(1)>> => result = Ok(<<FALSE>>))

\* C13 witness: contains has returned true for a value equal to the max of
\* the boundary.
C13_Witness ==
    /\ call.op = "DimensionBoundaries::contains"
    /\ call.arg = <<INTEGER(1, 2), IntegerValue(2)>>
    /\ result = Ok(<<TRUE>>)

\* C18: DimensionBoundaries::matches(other) is true if and only if the two
\* boundaries have the same variant, whatever their min and max; so is
\* DimensionValue::matches for two values; both are reflexive and symmetric.
C18_MatchesVariant ==
    /\ (call.op = "DimensionBoundaries::matches" =>
          /\ result = Ok(<<call.arg[1].tag = call.arg[2].tag>>)
          /\ (call.arg[1] = call.arg[2] => result = Ok(<<TRUE>>))
          /\ result = Ok(<<boundaries_matches(call.arg[2], call.arg[1])>>))
    /\ (call.op = "DimensionValue::matches" =>
          /\ result = Ok(<<call.arg[1].tag = call.arg[2].tag>>)
          /\ (call.arg[1] = call.arg[2] => result = Ok(<<TRUE>>))
          /\ result = Ok(<<value_matches(call.arg[2], call.arg[1])>>))

\* C18 witness: matches has returned true for two INTEGER boundaries with
\* different min and max.
C18_Witness ==
    /\ call.op = "DimensionBoundaries::matches"
    /\ call.arg = <<INTEGER(0, 1), INTEGER(2, 2)>>
    /\ result = Ok(<<TRUE>>)

\* C19: Space::all(b, dims) has the dimensions dims and exactly product(dims)
\* flat cells, each equal to b; Position::all(v, dims) likewise for a value.
C19_AllCells ==
    /\ (call.op = "Space::all" =>
          /\ result = Ok(<<space>>)
          /\ space.dimensions = call.shape
          /\ Len(space.boundaries) = product(call.shape)
          /\ \A i \in 1..Len(space.boundaries) : space.boundaries[i] = call.arg[1])
    /\ (call.op = "Position::all" =>
          /\ result = Ok(<<position>>)
          /\ position.dimensions = call.shape
          /\ Len(position.values) = product(call.shape)
          /\ \A i \in 1..Len(position.values) : position.values[i] = call.arg[1])

\* C19 witness: Position::all has made a Position of four cells for the
\* dimensions [2, 2].
C19_Witness ==
    /\ call.op = "Position::all"
    /\ call.shape = <<2, 2>>
    /\ call.arg = <<FloatValue(3)>>
    /\ Len(position.values) = 4
    /\ position.values[4] = FloatValue(3)

\* The state of a random source after n draws.
RECURSIVE RngAfter(_, _)
RngAfter(rng, n) == IF n = 0 THEN rng ELSE RngAfter(RngNext(rng), n - 1)

\* C14: for a Space whose boundaries have min <= max, Space::sample_with(rng)
\* returns a Position with the dimensions of the Space and as many flat cells,
\* where the value of cell i has the variant of the boundary of cell i and
\* lies in its min..max, and where the cells use the random source in flat
\* order: the value of cell i is the draw of the source after i draws (cells
\* counted from 0), and the source is left after as many draws as cells.
C14_SampleCells ==
    call.op = "sample_with" =>
        /\ (\A i \in 1..Len(space.boundaries) :
                space.boundaries[i].min <= space.boundaries[i].max)
              => result.kind = "Ok"
        /\ result.kind = "Ok" =>
            /\ result = Ok(<<position>>)
            /\ position.dimensions = space.dimensions
            /\ Len(position.values) = Len(space.boundaries)
            /\ \A i \in 1..Len(position.values) :
                /\ position.values[i].tag = space.boundaries[i].tag
                /\ space.boundaries[i].min <= position.values[i].val
                /\ position.values[i].val <= space.boundaries[i].max
                /\ position.values[i].val =
                      UniformSample(space.boundaries[i].min, space.boundaries[i].max,
                                    RngAfter(call.arg[2], i - 1)).val[1]
            /\ call.arg[1] = RngAfter(call.arg[2], Len(space.boundaries))

\* C14 witness: a Space of two cells with the same boundary of two values has
\* been sampled, and the two cells got different values.
C14_Witness ==
    /\ call.op = "sample_with"
    /\ result.kind = "Ok"
    /\ space = SpaceSimple(<<INTEGER(1, 2), INTEGER(1, 2)>>)
    /\ position.values = <<IntegerValue(1), IntegerValue(2)>>

C16_NewSpacePlaceholder ==
    [][call'.op = "new_space" =>
          /\ result' = Ok(<<space'>>)
          /\ space'.dimensions = <<length>>
          /\ Len(space'.boundaries) = length
          /\ \A i \in 1..Len(space'.boundaries) :
                space'.boundaries[i] = [tag |-> "INTEGER", min |-> 0, max |-> 0]
          /\ v' = v
          /\ length' = length]_vars

\* C16 witness: new_space has made the Space of a Format of two keys, one of
\* them with two cells and the other with none.
C16_Witness ==
    /\ call.op = "new_space"
    /\ Cardinality(DOMAIN v) = 2
    /\ length = 2
    /\ space = Space(<<INTEGER(0, 0), INTEGER(0, 0)>>, <<2>>)

\* The access operations of Format.
AccessOps ==
    {"get_subspace", "set_subspace", "get_boundaries", "set_boundaries",
     "get_subposition", "set_subposition", "get_value", "set_value"}

\* C17: every access operation of Format called with a key that was never
\* added returns Err(KeyNotFoundInFormat(key)), whatever its other arguments,
\* and leaves the Space and the Position unchanged.
C17_KeyNotFound ==
    [][(call'.op \in AccessOps /\ call'.key \notin DOMAIN v) =>
          /\ result' = Err([NoError EXCEPT !.name = "KeyNotFoundInFormat",
                                           !.key = call'.key])
          /\ space' = space
          /\ position' = position
          /\ v' = v
          /\ length' = length]_vars

\* C17 witness: set_subposition has been called with the key "b" under a
\* Format that holds two cells for the key "a" only.
C17_Witness ==
    /\ call.op = "set_subposition"
    /\ call.key = "b"
    /\ DOMAIN v = {"a"}
    /\ length = 2
    /\ Len(position.values) = 2
    /\ result.kind = "Err"
    /\ result.err.name = "KeyNotFoundInFormat"
    /\ result.err.key = "b"

\* The sum of the bytes at the Rust positions i, i + n, i + 2n, ...
RECURSIVE SumEvery(_, _, _)
SumEvery(bytes, i, n) ==
    IF i >= Len(bytes) THEN 0 ELSE bytes[i + 1] + SumEvery(bytes, i + n, n)

\* The array width of a conversion.
SeedWidth(op) ==
    IF op = "Into<[u8; 32]>" THEN 32 ELSE IF op = "Into<[u8; 16]>" THEN 16 ELSE 8

\* C20: the conversion of a Seed into an array of N bytes (N of 8, 16, 32)
\* yields output[j] = (sum of the input bytes at the positions i with
\* i mod N = j) mod 256 for every j; an input shorter than N is copied and
\* padded with zeros.
C20_SeedFold ==
    call.op \in {"Into<[u8; 32]>", "Into<[u8; 16]>", "Into<[u8; 8]>"} =>
        LET n == SeedWidth(call.op)
            output == result.val[1]
        IN  /\ result.kind = "Ok"
            /\ Len(output) = n
            /\ \A j \in 0..(n - 1) : output[j + 1] = SumEvery(call.arg, j, n) % 256
            /\ Len(call.arg) <= n =>
                  \A j \in 0..(n - 1) :
                      output[j + 1] = IF j < Len(call.arg) THEN call.arg[j + 1] ELSE 0

\* C20 witness: nine bytes of 200 have been folded into eight bytes; the
\* first cell took two of them and wrapped around to 144.
C20_Witness ==
    /\ call.op = "Into<[u8; 8]>"
    /\ call.arg = SeedRamp(200, 0, 9)
    /\ result = Ok(<<<<144, 200, 200, 200, 200, 200, 200, 200>>>>)

\* The quotient and the remainder of a base-256 number (most significant
\* digit first) divided by 10, from digit k on with the carry r.
RECURSIVE DivideBy10(_, _, _, _)
DivideBy10(digits, k, r, q) ==
    IF k > Len(digits) THEN [quotient |-> q, remainder |-> r]
    ELSE DivideBy10(digits, k + 1, (r * 256 + digits[k]) % 10,
                    Append(q, (r * 256 + digits[k]) \div 10))

\* The decimal digits of a base-256 number, the most significant first (none
\* for 0).
RECURSIVE Decimal(_)
Decimal(digits) ==
    IF \A k \in 1..Len(digits) : digits[k] = 0 THEN <<>>
    ELSE LET d == DivideBy10(digits, 1, 0, <<>>)
         IN  Append(Decimal(d.quotient), d.remainder)

\* C21: the conversion of a Seed into a u64 returns the big-endian reading of
\* its 8-byte fold, byte 0 the most significant; for the bytes [1, 2, 3, 4]
\* it returns 72623859706101760.
C21_SeedIntoU64 ==
    call.op = "Into<u64>" =>
        /\ result.kind = "Ok"
        /\ Len(result.val[1]) = 8
        /\ \A j \in 0..7 : result.val[1][j + 1] = SeedInto8(call.arg)[j + 1]
        /\ call.arg = <<1, 2, 3, 4>> =>
              Decimal(result.val[1]) = <<7, 2, 6, 2, 3, 8, 5, 9, 7, 0, 6, 1, 0, 1, 7, 6, 0>>

\* C21 witness: the bytes [1, 2, 3, 4] have been converted.
C21_Witness ==
    /\ call.op = "Into<u64>"
    /\ call.arg = <<1, 2, 3, 4>>
    /\ result = Ok(<<<<1, 2, 3, 4, 0, 0, 0, 0>>>>)

\* The product of the entries of a sequence of numbers.
RECURSIVE Product(_)
Product(s) == IF s = <<>> THEN 1 ELSE Head(s) * Product(Tail(s))

\* inverse, a matrix of fractions, is the inverse of matrix: no denominator is
\* 0 and matrix times inverse is the identity matrix.  The sum over k of
\* matrix[i][k] * num[k][j] / den[k][j] is taken over the common denominator.
IsInverse(matrix, inverse) ==
    /\ \A i \in 1..3, j \in 1..3 : inverse[i][j].den # 0
    /\ \A i \in 1..3, j \in 1..3 :
          LET den == [k \in 1..3 |-> inverse[k][j].den]
              term(k) == matrix[i][k] * inverse[k][j].num
                            * Product([l \in 1..2 |->
                                  den[IF l < k THEN l ELSE l + 1]])
          IN  term(1) + term(2) + term(3)
                 = (IF i = j THEN 1 ELSE 0) * Product(den)

\* r is the reverse of t with the children reordered: a Composition of the reverses
\* of the children of t in reversed order, or for a leaf a Custom
\* transformation holding the inverse of the matrix of t.
RECURSIVE IsReverseOf(_, _)
IsReverseOf(r, t) ==
    IF t.kind = "Composition"
    THEN /\ r.kind = "Composition"
         /\ Len(r.transformations) = Len(t.transformations)
         /\ \A i \in 1..Len(t.transformations) :
               IsReverseOf(r.transformations[i],
                           t.transformations[Len(t.transformations) - i + 1])
    ELSE /\ r.kind = "Custom"
         /\ IsInverse(transformation_matrix(t), r.transformation)

\* C22 as stated: Transformation2D::reverse of a Composition returns a
\* Composition whose children are the reverses of the original children in
\* reversed order, recursively; of a leaf it returns a Custom transformation
\* holding the inverse of the matrix of the leaf.
C22_ReverseReorders ==
    call.op = "Transformation2D::reverse" =>
        /\ result.kind = "Ok"
        /\ IsReverseOf(result.val[1], call.arg[1])

\* The determinant of a 3x3 matrix by the rule of Sarrus.
Sarrus(m) ==
    m[1][1] * m[2][2] * m[3][3] + m[1][2] * m[2][3] * m[3][1]
        + m[1][3] * m[2][1] * m[3][2] - m[1][3] * m[2][2] * m[3][1]
        - m[1][2] * m[2][1] * m[3][3] - m[1][1] * m[2][3] * m[3][2]

\* C29 as stated: determinant_of_matrix_3x3(m) returns the determinant of m
\* for every 3x3 matrix; it returns 4 for [[2,-1,0],[-1,2,-1],[0,-1,2]].
C29_Determinant ==
    call.op = "determinant_of_matrix_3x3" =>
        /\ result = Ok(<<Sarrus(call.arg[1])>>)
        /\ call.arg[1] = TestMatrix => result = Ok(<<4>>)

\* C23 as stated: a set_value or set_boundaries through the Format that
\* returns Ok writes one flat cell, and that cell lies in the range
\* [offset, offset + length) of its key: every cell outside that range, and
\* so every cell of another key, is as it was, for every index on which the
\* call returns Ok.
C23_SingleCellFrame ==
    [][/\ (call'.op = "set_value" /\ result'.kind = "Ok" =>
            /\ v' = v /\ length' = length /\ space' = space
            /\ position'.dimensions = position.dimensions
            /\ Len(position'.values) = Len(position.values)
            /\ \E c \in Range(v[call'.key]) :
                  \A i \in 1..Len(position.values) :
                      i - 1 # c => position'.values[i] = position.values[i])
       /\ (call'.op = "set_boundaries" /\ result'.kind = "Ok" =>
            /\ v' = v /\ length' = length /\ position' = position
            /\ space'.dimensions = space.dimensions
            /\ Len(space'.boundaries) = Len(space.boundaries)
            /\ \E c \in Range(v[call'.key]) :
                  \A i \in 1..Len(space.boundaries) :
                      i - 1 # c => space'.boundaries[i] = space.boundaries[i])]_vars

\* C24 as stated: whenever calculate_index(shape, index) returns Ok(offset),
\* offset < product(shape), for every shape and every index of any length;
\* so the access to the flat cell that follows in the accessors of a Space
\* or Position of that shape is in bounds and does not panic.
C24_OffsetBelowProduct ==
    /\ (call.op = "calculate_index" /\ result.kind = "Ok" =>
          result.val[1] < product(call.shape))
    /\ ((/\ call.op \in {"Space::get_boundary", "Space::set_boundary",
                         "Position::get_value", "Position::set_value"}
         /\ calculate_index(call.shape, call.index).kind = "Ok")
            => result.kind = "Ok")

\* C25 as stated: for every shape, two different multi-indices of the length
\* of the shape, in range, have different offsets, so a set_value (or
\* set_boundary) at one of them leaves the cell read at the other one as it
\* was; and every flat cell is the offset of some multi-index.
C25_DistinctCells ==
    /\ (call.op = "calculate_index" /\ call.index # call.arg[1] =>
          result.val[1] # result.val[2])
    /\ (call.op = "Position::set_value" /\ call.index # call.arg[1] =>
          result = Ok(<<IntegerValue(0)>>))
    /\ (call.op = "Space::set_boundary" /\ call.index # call.arg[1] =>
          result = Ok(<<INTEGER(0, 0)>>))
    /\ (call.op = "calculate_index" =>
          \A c \in 0..(product(call.shape) - 1) :
              \E i \in FullIndices(call.shape) :
                  calculate_index(call.shape, i) = Ok(<<c>>))

\* C26 as stated: for every Space whose boundaries all have min <= max, a
\* Space with zero cells included, the Position returned by sample_with is
\* contained in the Space: space.contains(space.sample_with(rng)) is true
\* for every state of the random source.
C26_SampleContained ==
    (/\ call.op = "Space::contains"
     /\ \A i \in 1..Len(space.boundaries) :
           space.boundaries[i].min <= space.boundaries[i].max)
        => result = Ok(<<TRUE>>)

\* Spaces and Positions of one flat cell more than the longest Format.
LongSpaces == {SpaceSimple(c) : c \in [1..(MaxLength + 1) -> Boundaries]}
LongPositions == {PositionSimple(c) : c \in [1..(MaxLength + 1) -> Values]}

\* r is Ok of a Space or Position with the registered shape of sf as its
\* dimensions and product(shape) flat cells.
OkOfShape(r, sf) ==
    /\ r.kind = "Ok"
    /\ r.val[1].dimensions = sf.shape
    /\ product(sf.shape)
          = (IF "values" \in DOMAIN r.val[1] THEN Len(r.val[1].values)
             ELSE Len(r.val[1].boundaries))

\* C27: for every registered key and every Space (Position) with at least
\* Format.length flat cells, get_subspace (get_subposition) returns Ok of a
\* Space (Position) whose dimensions are the registered shape and whose flat
\* length is product(shape); SpaceCreationError and PositionCreationError
\* are never returned.  This holds for the call made on the Space and the
\* Position of the program, and in every state of the Format for every
\* longer Space and Position.
C27_SubReadsOk ==
    /\ (call.op = "get_subspace" /\ call.key \in DOMAIN v
            /\ Len(space.boundaries) >= length) =>
          OkOfShape(result, v[call.key])
    /\ (call.op = "get_subposition" /\ call.key \in DOMAIN v
            /\ Len(position.values) >= length) =>
          OkOfShape(result, v[call.key])
    /\ \A key \in DOMAIN v :
          /\ \A s \in LongSpaces :
                OkOfShape(get_subspace(Format(v, length), s, key), v[key])
          /\ \A p \in LongPositions :
                OkOfShape(get_subposition(Format(v, length), p, key), v[key])
    /\ result.kind = "Err" =>
          result.err.name \notin {"SpaceCreationError", "PositionCreationError"}

\* C27 witness: get_subposition has returned the Position of one cell in two
\* dimensions of a key registered second, behind a key of one cell.
C27_Witness ==
    /\ call.op = "get_subposition"
    /\ call.key \in DOMAIN v
    /\ v[call.key].shape = <<1, 1>>
    /\ v[call.key].offset = 1
    /\ Len(position.values) = length
    /\ result.kind = "Ok"
    /\ result.val[1].dimensions = <<1, 1>>
    /\ Len(result.val[1].values) = 1

\* The Space s is valid for the entry sf of the Format f registered with
\* key: the range of sf lies in the flat cells of s, and get_subspace
\* returns the Space of those cells.
ValidFor(f, s, key) ==
    /\ \A c \in Range(f.v[key]) : c < Len(s.boundaries)
    /\ OkOfShape(get_subspace(f, s, key), f.v[key])

\* C28: the offset, shape and length of a registered key never change under
\* later calls of add, failing ones included, and of the get and set
\* operations; so the Space made by new_space is valid for every key
\* registered by then and stays valid for it under every later call, while
\* a key added after new_space gets an offset at or beyond the flat length
\* of that Space: each of its cells lies beyond the Space, and get_subspace
\* of it panics when it has a cell.
C28_EntriesFrozen ==
    [][/\ \A k \in DOMAIN v : k \in DOMAIN v' /\ v'[k] = v[k]
       /\ (call'.op = "new_space" =>
             \A k \in DOMAIN v' : ValidFor(Format(v', length'), space', k))
       /\ (call'.op # "new_space" =>
             \A k \in DOMAIN v :
                 ValidFor(Format(v, length), space, k)
                     => ValidFor(Format(v', length'), space', k))
       /\ (call'.op = "add" /\ result'.kind = "Ok" =>
             /\ call'.key \notin DOMAIN v
             /\ v'[call'.key].offset >= Len(space'.boundaries))
       /\ \A k \in DOMAIN v' :
             v'[k].offset >= Len(space'.boundaries) =>
                 /\ \A c \in Range(v'[k]) : c >= Len(space'.boundaries)
                 /\ (v'[k].length > 0 =>
                        get_subspace(Format(v', length'), space', k) = Panic)
       /\ \A k \in DOMAIN v' :
             \/ v'[k].offset >= Len(space'.boundaries)
             \/ ValidFor(Format(v', length'), space', k)]_vars

\* C28 witness: a key of one cell was registered, new_space made the Space of
\* one cell, a second key of one cell was added behind it, and a further add
\* of that key has failed.
C28_Witness ==
    /\ call.op = "add"
    /\ result.kind = "Err"
    /\ DOMAIN v = {"a", "b"}
    /\ Len(space.boundaries) = 1
    /\ v[call.key].offset = 1
    /\ v[call.key].length = 1
    /\ \E k \in DOMAIN v : v[k].offset = 0 /\ v[k].length = 1

\* The value x lies in the boundaries b: a discrete value in continuous
\* boundaries when it is between minimum and maximum; a continuous value in
\* discrete boundaries never when whole is FALSE, and when it is a whole
\* number between minimum and maximum otherwise; a MULTIPLE value in MULTIPLE
\* boundaries when both have as many elements and every element lies in its
\* boundaries; values and boundaries of one variant by minimum and maximum.
RECURSIVE Inside(_, _, _)
Inside(b, x, whole) ==
    IF b.tag = "MULTIPLE" \/ x.tag = "MULTIPLE"
    THEN /\ b.tag = "MULTIPLE" /\ x.tag = "MULTIPLE"
         /\ Len(b.values) = Len(x.values)
         /\ \A i \in 1..Len(b.values) : Inside(b.values[i], x.values[i], whole)
    ELSE IF b.tag = x.tag THEN b.minimum <= x.val /\ x.val <= b.maximum
    ELSE IF b.tag = "CONTINUOUS"
    THEN b.minimum <= x.val * Parts /\ x.val * Parts <= b.maximum
    ELSE /\ whole
         /\ \E d \in b.minimum..b.maximum : d * Parts = x.val

====
